---- MODULE Spec2Model ----
(***************************************************************************)
(* State-machine model of the 3D-Explorer viewer managers:                 *)
(*   ViewsManager (saved views, custom sections, 2D view restore),         *)
(*   CameraControlsManager (projection / navigation mode),                 *)
(*   VisibilityManager (category hide / isolate / show),                   *)
(*   Area/Length measurement managers (double-click wiring),               *)
(*   the initApp bootstrap (update race, manager init order, theme).       *)
(* Third-party objects (camera, hider, measurer, localStorage) appear as   *)
(* the state the managers read and write through them.                     *)
(***************************************************************************)
EXTENDS Integers, Sequences, FiniteSets, TLC

(* ------------------------------------------------------------------ *)
(* Bounds of the model                                                *)
(* ------------------------------------------------------------------ *)
\* number of custom sections that may exist at a time
MaxSections == 2
\* largest zoom factor the user sets on the camera
MaxZoom == 2
\* number of models loaded into the fragments manager
MaxModels == 2

(* ------------------------------------------------------------------ *)
(* JavaScript values                                                  *)
(* ------------------------------------------------------------------ *)
\* the JavaScript null of a field that otherwise holds a string
Null == "$null"

\* return values of a manager method, and an exception leaving it
RetTrue == "true"
RetFalse == "false"
RetNull == "null"
RetUndefined == "undefined"
RetArray == "array"
Thrown == "exception"

(* ------------------------------------------------------------------ *)
(* THREE.Vector3 arithmetic on integer triples                        *)
(* ------------------------------------------------------------------ *)
VAdd(a, b) == <<a[1] + b[1], a[2] + b[2], a[3] + b[3]>>

VScale(a, k) == <<a[1] * k, a[2] * k, a[3] * k>>

VNeg(a) == VScale(a, -1)

Sgn(n) == IF n > 0 THEN 1 ELSE IF n < 0 THEN -1 ELSE 0

\* the look direction of a camera at `from` after lookAt(`to`), kept as the
\* sign of each component of to - from
LookDir(from, to) == <<Sgn(to[1] - from[1]), Sgn(to[2] - from[2]), Sgn(to[3] - from[3])>>

Origin == <<0, 0, 0>>

Max(a, b) == IF a >= b THEN a ELSE b

(* ------------------------------------------------------------------ *)
(* JavaScript Map as a function over its key set                      *)
(* ------------------------------------------------------------------ *)
EmptyMap == [k \in {} |-> Null]

MapHas(m, k) == k \in DOMAIN m

MapSet(m, k, v) == [x \in (DOMAIN m) \cup {k} |-> IF x = k THEN v ELSE m[x]]

MapDelete(m, k) == [x \in (DOMAIN m) \ {k} |-> m[x]]

MapSize(m) == Cardinality(DOMAIN m)

(* ------------------------------------------------------------------ *)
(* State                                                              *)
(* ------------------------------------------------------------------ *)
VARIABLES
  libFaulty,              \* whether wrapped library calls may throw in this run
  lastCall,               \* the last manager method called, with its outcome
  \* world.camera
  camProjection, camMode, camPos, camRot, camFov, camZoom, hasControls,
  \* CameraControlsManager
  projectionMode, navigationMode,
  \* ViewsManager
  viewsInitDone, viewsComponent, raycasterReady, savedViews, customSections, currentViewName,
  sectionsEnabled, previousProjection, previousNavigationMode,
  \* observation of the 2D episode: whether a section view is open and the
  \* projection the camera had when it was opened
  in2D, proj3D,
  \* VisibilityManager, the fragments manager's model list and the items the
  \* hider currently shows, each item a pair <<index of its model, expressID>>
  hiderInitDone, hider, hiddenItems, isolatedItems, hasFragmentsManager, models, visible,
  \* AreaMeasurementManager and LengthMeasurementManager; ondblclick is the
  \* container's ondblclick property, naming the manager whose create() it calls
  areaMeasurer, areaEnabled, areaMeasurerEnabled,
  lengthMeasurer, lengthEnabled, lengthMeasurerEnabled, ondblclick,
  \* ClipperManager; clipperEnabled is clipper.enabled
  clipper, clipperEnabled,
  \* ViewCubeManager: whether it was given camera controls
  viewCubeControls,
  \* initApp: pc is the place it has reached; updateState and timerState are
  \* the two promises of the start-up race; ready holds what each init
  \* returned; initLog the begin and end of each init in the order they
  \* happened; bound the managers whose panel controls have handlers;
  \* disabledControls the managers whose controls are rendered disabled
  pc, updateState, timerState, ready, initLog, bound, disabledControls,
  \* the theme: darkMode is the dark-mode class of the body, storedTheme the
  \* 'theme' entry of localStorage, themeReady whether setupThemeToggle ran on
  \* this page, themeAtUnload the theme the previous page showed when it was left
  darkMode, storedTheme, themeReady, themeAtUnload,
  \* the double-click listeners of initApp: isCreatingSection and
  \* isCreatingPlane are their guard flags, sectionJobs the number of
  \* createCustomSection calls waiting for their raycast; planes is
  \* clipper.list, each clipping plane with its enabled flag
  isCreatingSection, sectionJobs, isCreatingPlane, planes,
  \* IfcLoaderManager: loadJob is the call of loadFromFile or loadFromUrl
  \* that is between its guard and its return, with the caller it belongs
  \* to and the promise it awaits; onLoadComplete is whether a callback is
  \* installed in that field; loadBtnDisabled is loadBtn.disabled
  isLoading, loadProgress, loadJob, onLoadComplete, loadBtnDisabled,
  \* ItemsFinderManager; meshVisible is mesh.visible of every fragment in
  \* the list of the fragments manager, by model id
  finder, isolationEnabled, originalFragments, meshVisible

cameraVars == <<camProjection, camMode, camPos, camRot, camFov, camZoom, hasControls>>

ccVars == <<projectionMode, navigationMode>>

viewsVars == <<viewsInitDone, viewsComponent, raycasterReady, savedViews, customSections, currentViewName,
               sectionsEnabled, previousProjection, previousNavigationMode, in2D, proj3D>>

visVars == <<hiderInitDone, hider, hiddenItems, isolatedItems, hasFragmentsManager, models, visible>>

measVars == <<areaMeasurer, areaEnabled, areaMeasurerEnabled,
              lengthMeasurer, lengthEnabled, lengthMeasurerEnabled, ondblclick>>

clipVars == <<clipper, clipperEnabled, viewCubeControls>>

bootVars == <<pc, updateState, timerState, ready, initLog, bound, disabledControls>>

themeVars == <<darkMode, storedTheme, themeReady, themeAtUnload>>

dblVars == <<isCreatingSection, sectionJobs, isCreatingPlane, planes>>

ifcVars == <<isLoading, loadProgress, loadJob, onLoadComplete, loadBtnDisabled>>

finderVars == <<finder, isolationEnabled, originalFragments, meshVisible>>

handlerVars == <<dblVars, ifcVars, finderVars>>

vars == <<libFaulty, handlerVars, lastCall, cameraVars, ccVars, viewsVars, visVars, measVars, clipVars,
          bootVars, themeVars>>

\* what the methods of one manager leave alone
outsideViews == <<libFaulty, handlerVars, ccVars, visVars, measVars, clipVars, bootVars, themeVars>>

outsideCameraControls == <<libFaulty, handlerVars, viewsVars, visVars, measVars, clipVars, bootVars, themeVars>>

outsideVisibility ==
  <<libFaulty, handlerVars, cameraVars, ccVars, viewsVars, measVars, clipVars, bootVars, themeVars>>

outsideMeasurement ==
  <<libFaulty, handlerVars, cameraVars, ccVars, viewsVars, visVars, clipVars, bootVars, themeVars>>

outsideClipper ==
  <<libFaulty, handlerVars, cameraVars, ccVars, viewsVars, visVars, measVars, bootVars, themeVars>>

\* what the double-click listeners and the clipping-plane methods leave
\* alone, the camera and the views manager apart
outsideDblclick == <<libFaulty, ifcVars, finderVars, ccVars, visVars, measVars, clipVars, bootVars, themeVars>>

\* what the IFC loader and its Load button leave alone, the camera apart
outsideIfc ==
  <<libFaulty, dblVars, finderVars, ccVars, viewsVars, visVars, measVars, clipVars, bootVars, themeVars>>

\* what the items finder leaves alone, the fragments manager apart
outsideFinder ==
  <<libFaulty, dblVars, ifcVars, cameraVars, ccVars, viewsVars, measVars, clipVars, bootVars, themeVars>>

outsideBoot ==
  <<libFaulty, handlerVars, cameraVars, ccVars, viewsVars, visVars, measVars, clipVars, themeVars>>

\* op: the method, arg: its argument, ret: what the caller got, val: the value
\* of a getter, depMissing: the method found its dependency missing, threw: a
\* wrapped library call threw inside it
NoCall == [op |-> "none", arg |-> Null, ret |-> RetUndefined, val |-> {},
           depMissing |-> FALSE, threw |-> FALSE]

Call(op, arg, ret, depMissing, threw) ==
  [op |-> op, arg |-> arg, ret |-> ret, val |-> {}, depMissing |-> depMissing, threw |-> threw]

\* the library call may throw only in a run with a faulty library
Faults == IF libFaulty THEN BOOLEAN ELSE {FALSE}

(* ------------------------------------------------------------------ *)
(* Inputs                                                             *)
(* ------------------------------------------------------------------ *)
PresetViewNames == {"Top View", "Front View", "Right View", "Isometric View"}

\* names offered to the view methods: a preset, a name of the user's, the
\* empty string and a blank one
ViewNameInputs == {"Top View", "My View", "", " "}

\* poses the user moves the camera to: one looking past the origin, one at it
UserPoses == {[position |-> <<0, 0, 50>>, rotation |-> <<1, 0, -1>>],
              [position |-> <<0, 50, 0>>, rotation |-> <<0, -1, 0>>]}

\* section names offered to the section methods
SectionNameInputs == {"Section-" \o ToString(i) : i \in 1..MaxSections} \cup {"Section-0"}

ProjectionModes == {"Perspective", "Orthographic"}

NavigationModes == {"Orbit", "FirstPerson", "Plan"}

\* raycast results of a double-click: hits with point and normal, a hit
\* without a normal, and no intersection at all (castRay returned null)
RayHits == {[found |-> TRUE, hasNormal |-> TRUE, point |-> <<2, 0, 0>>, normal |-> <<0, 1, 0>>],
            [found |-> TRUE, hasNormal |-> FALSE, point |-> <<2, 0, 0>>, normal |-> <<0, 0, 0>>]}

NoHit == [found |-> FALSE, hasNormal |-> FALSE, point |-> <<0, 0, 0>>, normal |-> <<0, 0, 0>>]

(* ------------------------------------------------------------------ *)
(* Initial state: the managers as their constructors leave them, the  *)
(* camera as initApp positions it                                     *)
(* ------------------------------------------------------------------ *)
InitCamera ==
  /\ camProjection = "Perspective"
  /\ camMode = "Orbit"
  /\ camPos = <<68, 23, -9>>
  /\ camRot = LookDir(<<68, 23, -9>>, <<22, -6, 23>>)
  /\ camFov = 60
  /\ camZoom = 1
  /\ hasControls = TRUE

InitCameraControls ==
  /\ projectionMode = "Perspective"
  /\ navigationMode = "Orbit"

InitViews ==
  /\ viewsInitDone = FALSE
  /\ viewsComponent = Null
  /\ raycasterReady = FALSE
  /\ savedViews = EmptyMap
  /\ customSections = EmptyMap
  /\ currentViewName = Null
  /\ sectionsEnabled = FALSE
  /\ previousProjection = Null
  /\ previousNavigationMode = Null
  /\ in2D = FALSE
  /\ proj3D = Null

(* ------------------------------------------------------------------ *)
(* The user moving the camera with the mouse                          *)
(* ------------------------------------------------------------------ *)
MoveCamera(pose) ==
  /\ camPos' = pose.position
  /\ camRot' = pose.rotation
  /\ lastCall' = NoCall
  /\ UNCHANGED <<camProjection, camMode, camFov, camZoom, hasControls, viewsVars>>

ZoomCamera(z) ==
  /\ camZoom' = z
  /\ lastCall' = NoCall
  /\ UNCHANGED <<camProjection, camMode, camPos, camRot, camFov, hasControls, viewsVars>>

(* ------------------------------------------------------------------ *)
(* ViewsManager                                                       *)
(* ------------------------------------------------------------------ *)
\* init(): found - components.get(OBC.Views) returned the component;
\* ray - initializeRaycaster obtained a raycaster for the world
ViewsInit(found, ray) ==
  /\ ~viewsInitDone
  /\ viewsInitDone' = TRUE
  /\ IF ~found
     THEN /\ lastCall' = Call("ViewsManager.init", Null, RetFalse, TRUE, FALSE)
          /\ UNCHANGED <<viewsComponent, raycasterReady>>
     ELSE /\ viewsComponent' = "Views"
          /\ raycasterReady' = ray
          /\ lastCall' = Call("ViewsManager.init", Null, RetTrue, FALSE, FALSE)
  /\ UNCHANGED <<cameraVars, savedViews, customSections, currentViewName, sectionsEnabled,
                 previousProjection, previousNavigationMode, in2D, proj3D>>

\* the name createCustomSection gives a section created without a name
SectionName(name) == IF name # Null /\ name # "" THEN name
                     ELSE "Section-" \o ToString(MapSize(customSections) + 1)

\* the entry createCustomSection stores for a raycast hit
SectionEntry(sectionName, hit) ==
  [name |-> sectionName,
   helpersVisible |-> FALSE,
   point |-> hit.point,
   offsetPoint |-> VAdd(hit.point, VScale(hit.normal, 1)),
   normal |-> hit.normal,
   invertedNormal |-> VNeg(hit.normal),
   range |-> 10]

createCustomSection(name, hit) ==
  /\ IF ~raycasterReady
     THEN /\ lastCall' = Call("createCustomSection", name, RetFalse, TRUE, FALSE)
          /\ UNCHANGED customSections
     ELSE IF ~hit.found \/ ~hit.hasNormal
     THEN /\ lastCall' = Call("createCustomSection", name, RetFalse, FALSE, FALSE)
          /\ UNCHANGED customSections
     ELSE /\ MapSize(MapSet(customSections, SectionName(name), Null)) <= MaxSections
          /\ customSections' = MapSet(customSections, SectionName(name),
                                      SectionEntry(SectionName(name), hit))
          /\ lastCall' = Call("createCustomSection", name, RetTrue, FALSE, FALSE)
  /\ UNCHANGED <<cameraVars, viewsInitDone, viewsComponent, raycasterReady, savedViews,
                 currentViewName, sectionsEnabled, previousProjection, previousNavigationMode,
                 in2D, proj3D>>

setSectionsEnabled(enabled) ==
  /\ sectionsEnabled' = enabled
  /\ lastCall' = Call("setSectionsEnabled", enabled, RetTrue, FALSE, FALSE)
  /\ UNCHANGED <<cameraVars, viewsInitDone, viewsComponent, raycasterReady, savedViews,
                 customSections, currentViewName, previousProjection, previousNavigationMode,
                 in2D, proj3D>>

\* the camera distance loadCustomSection derives from the section's range
SectionDistance(section) == Max(IF section.range # 0 THEN section.range ELSE 10, 15)

SectionCameraPos(section) ==
  VAdd(section.offsetPoint, VScale(section.invertedNormal, SectionDistance(section)))

\* a loadCustomSection that stores the projection it finds every time
StoresPreviousAlways == TRUE

\* whether loadCustomSection records the current projection and navigation mode
StoresPrevious == previousProjection = Null

loadCustomSection(sectionName) ==
  IF ~MapHas(customSections, sectionName)
  THEN /\ lastCall' = Call("loadCustomSection", sectionName, RetFalse, FALSE, FALSE)
       /\ UNCHANGED <<cameraVars, viewsVars>>
  ELSE /\ customSections' = [n \in DOMAIN customSections |->
                               [customSections[n] EXCEPT !.helpersVisible = (n = sectionName)]]
       /\ IF StoresPrevious
          THEN /\ previousProjection' = camProjection
               /\ previousNavigationMode' = camMode
          ELSE UNCHANGED <<previousProjection, previousNavigationMode>>
       /\ camProjection' = "Orthographic"
       /\ camPos' = SectionCameraPos(customSections[sectionName])
       /\ camRot' = LookDir(SectionCameraPos(customSections[sectionName]),
                            customSections[sectionName].offsetPoint)
       /\ currentViewName' = sectionName
       /\ in2D' = TRUE
       /\ proj3D' = IF in2D THEN proj3D ELSE camProjection
       /\ lastCall' = Call("loadCustomSection", sectionName, RetTrue, FALSE, FALSE)
       /\ UNCHANGED <<camMode, camFov, camZoom, hasControls, viewsInitDone, viewsComponent,
                      raycasterReady, savedViews, sectionsEnabled>>

\* restorePreviousView(): the camera projection and navigation mode afterwards
RestoredProjection == IF previousProjection # Null THEN previousProjection ELSE camProjection

RestoredMode == IF previousNavigationMode # Null THEN previousNavigationMode ELSE camMode

restorePreviousView ==
  /\ camProjection' = RestoredProjection
  /\ camMode' = RestoredMode
  /\ previousProjection' = Null
  /\ previousNavigationMode' = Null
  /\ currentViewName' = Null

\* hasActiveView(): no view of the Views component is opened by the managers,
\* so the answer is decided by currentViewName
hasActiveView == viewsComponent # Null /\ currentViewName # Null

closeActiveView ==
  IF viewsComponent = Null
  THEN /\ lastCall' = Call("closeActiveView", Null, RetFalse, TRUE, FALSE)
       /\ UNCHANGED <<cameraVars, viewsVars>>
  ELSE IF ~hasActiveView
  THEN /\ lastCall' = Call("closeActiveView", Null, RetFalse, FALSE, FALSE)
       /\ UNCHANGED <<cameraVars, viewsVars>>
  ELSE /\ restorePreviousView
       /\ in2D' = FALSE
       /\ proj3D' = IF in2D THEN proj3D ELSE Null
       /\ lastCall' = Call("closeActiveView", Null, RetTrue, FALSE, FALSE)
       /\ UNCHANGED <<camPos, camRot, camFov, camZoom, hasControls, viewsInitDone,
                      viewsComponent, raycasterReady, savedViews, customSections,
                      sectionsEnabled>>

deleteCustomSection(sectionName) ==
  IF ~MapHas(customSections, sectionName)
  THEN /\ lastCall' = Call("deleteCustomSection", sectionName, RetFalse, FALSE, FALSE)
       /\ UNCHANGED <<cameraVars, viewsVars>>
  ELSE /\ customSections' = MapDelete(customSections, sectionName)
       /\ IF currentViewName = sectionName
          THEN /\ restorePreviousView
               /\ in2D' = FALSE
               /\ proj3D' = IF in2D THEN proj3D ELSE Null
          ELSE UNCHANGED <<camProjection, camMode, previousProjection,
                           previousNavigationMode, currentViewName, in2D, proj3D>>
       /\ lastCall' = Call("deleteCustomSection", sectionName, RetTrue, FALSE, FALSE)
       /\ UNCHANGED <<camPos, camRot, camFov, camZoom, hasControls, viewsInitDone,
                      viewsComponent, raycasterReady, savedViews, sectionsEnabled>>

\* String.prototype.trim() on the names the model offers
Trim(name) == IF name = " " THEN "" ELSE name

\* the camera pose saveCurrentView captures
ViewData(viewName) ==
  [name |-> viewName, position |-> camPos, rotation |-> camRot, fov |-> camFov, zoom |-> camZoom]

saveCurrentView(viewName) ==
  /\ IF viewName = Null \/ viewName = "" \/ Trim(viewName) = ""
     THEN /\ lastCall' = Call("saveCurrentView", viewName, RetFalse, FALSE, FALSE)
          /\ UNCHANGED savedViews
     ELSE /\ savedViews' = MapSet(savedViews, viewName, ViewData(viewName))
          /\ lastCall' = Call("saveCurrentView", viewName, RetTrue, FALSE, FALSE)
  /\ UNCHANGED <<cameraVars, viewsInitDone, viewsComponent, raycasterReady, customSections,
                 currentViewName, sectionsEnabled, previousProjection, previousNavigationMode,
                 in2D, proj3D>>

\* camera.controls.setLookAt(px, py, pz, tx, ty, tz): the controls put the
\* camera at the position and turn it to the target
SetLookAtRotation(position, target) == LookDir(position, target)

\* the look direction loadView leaves the camera with
LoadedRotation(viewData) ==
  IF hasControls THEN SetLookAtRotation(viewData.position, Origin) ELSE viewData.rotation

loadView(viewName) ==
  IF ~MapHas(savedViews, viewName)
  THEN /\ lastCall' = Call("loadView", viewName, RetFalse, FALSE, FALSE)
       /\ UNCHANGED <<cameraVars, viewsVars>>
  ELSE /\ camPos' = savedViews[viewName].position
       /\ camRot' = LoadedRotation(savedViews[viewName])
       /\ camFov' = savedViews[viewName].fov
       /\ camZoom' = savedViews[viewName].zoom
       /\ currentViewName' = viewName
       /\ lastCall' = Call("loadView", viewName, RetTrue, FALSE, FALSE)
       /\ UNCHANGED <<camProjection, camMode, hasControls, viewsInitDone, viewsComponent,
                      raycasterReady, savedViews, customSections, sectionsEnabled,
                      previousProjection, previousNavigationMode, in2D, proj3D>>

\* a deleteView that finds no view
DeleteFindsNever(viewName) == FALSE

\* whether deleteView finds the view it is to delete
DeleteFinds(viewName) == MapHas(savedViews, viewName)

deleteView(viewName) ==
  /\ IF ~DeleteFinds(viewName)
     THEN /\ lastCall' = Call("deleteView", viewName, RetFalse, FALSE, FALSE)
          /\ UNCHANGED <<savedViews, currentViewName>>
     ELSE /\ savedViews' = MapDelete(savedViews, viewName)
          /\ currentViewName' = IF currentViewName = viewName THEN Null ELSE currentViewName
          /\ lastCall' = Call("deleteView", viewName, RetTrue, FALSE, FALSE)
  /\ UNCHANGED <<cameraVars, viewsInitDone, viewsComponent, raycasterReady, customSections,
                 sectionsEnabled, previousProjection, previousNavigationMode, in2D, proj3D>>

getViewNames ==
  /\ lastCall' = [Call("getViewNames", Null, RetArray, FALSE, FALSE)
                    EXCEPT !.val = DOMAIN savedViews]
  /\ UNCHANGED <<cameraVars, viewsVars>>

clearAllViews ==
  /\ savedViews' = EmptyMap
  /\ currentViewName' = Null
  /\ lastCall' = Call("clearAllViews", Null, RetTrue, FALSE, FALSE)
  /\ UNCHANGED <<cameraVars, viewsInitDone, viewsComponent, raycasterReady, customSections,
                 sectionsEnabled, previousProjection, previousNavigationMode, in2D, proj3D>>

\* the four views createPresetViews stores; each Euler rotation is given as the
\* direction it makes the camera look in
PresetViews ==
  [n \in PresetViewNames |->
     [name |-> n,
      position |-> CASE n = "Top View" -> <<0, 50, 0>>
                     [] n = "Front View" -> <<0, 0, 50>>
                     [] n = "Right View" -> <<50, 0, 0>>
                     [] n = "Isometric View" -> <<50, 50, 50>>,
      rotation |-> CASE n = "Top View" -> <<0, -1, 0>>
                     [] n = "Front View" -> <<0, 0, -1>>
                     [] n = "Right View" -> <<-1, 0, 0>>
                     [] n = "Isometric View" -> <<-1, -1, -1>>,
      fov |-> 50,
      zoom |-> 1]]

createPresetViews ==
  /\ savedViews' = [n \in (DOMAIN savedViews) \cup PresetViewNames |->
                      IF n \in PresetViewNames THEN PresetViews[n] ELSE savedViews[n]]
  /\ lastCall' = Call("createPresetViews", Null, RetTrue, FALSE, FALSE)
  /\ UNCHANGED <<cameraVars, viewsInitDone, viewsComponent, raycasterReady, customSections,
                 currentViewName, sectionsEnabled, previousProjection, previousNavigationMode,
                 in2D, proj3D>>

(* ------------------------------------------------------------------ *)
(* CameraControlsManager                                              *)
(* ------------------------------------------------------------------ *)
\* mode names offered to the setters, one of them outside the allowed lists
ModeInputs == ProjectionModes \cup NavigationModes \cup {"Isometric"}

\* the state the two setters work on
CamState == [proj |-> camProjection, mode |-> camMode,
             pm |-> projectionMode, nm |-> navigationMode]

\* camera.set(mode) and the bookkeeping after it; throws: the camera call threw
NavApply(c, mode, throws) ==
  IF throws THEN c ELSE [c EXCEPT !.mode = mode, !.nm = mode]

\* camera.projection.set(mode) and the bookkeeping after it
ProjApply(c, mode, throws) ==
  IF throws THEN c ELSE [c EXCEPT !.proj = mode, !.pm = mode]

\* setProjectionMode(mode) for an allowed mode: FirstPerson navigation is
\* first switched to Orbit when Orthographic is asked for
ProjectionSwitch(c, mode, projThrows, navThrows) ==
  ProjApply(IF mode = "Orthographic" /\ c.nm = "FirstPerson"
            THEN NavApply(c, "Orbit", navThrows) ELSE c,
            mode, projThrows)

\* setNavigationMode(mode) for an allowed mode: Orthographic projection is
\* first switched to Perspective when FirstPerson is asked for
NavigationSwitch(c, mode, projThrows, navThrows) ==
  NavApply(IF mode = "FirstPerson" /\ c.pm = "Orthographic"
           THEN ProjectionSwitch(c, "Perspective", projThrows, navThrows) ELSE c,
           mode, navThrows)

ApplyCamState(c) ==
  /\ camProjection' = c.proj
  /\ camMode' = c.mode
  /\ projectionMode' = c.pm
  /\ navigationMode' = c.nm

setProjectionMode(mode, projThrows, navThrows) ==
  /\ IF mode \notin ProjectionModes
     THEN /\ lastCall' = Call("setProjectionMode", mode, RetFalse, FALSE, FALSE)
          /\ UNCHANGED <<camProjection, camMode, projectionMode, navigationMode>>
     ELSE /\ ApplyCamState(ProjectionSwitch(CamState, mode, projThrows, navThrows))
          /\ lastCall' = Call("setProjectionMode", mode,
                              IF projThrows THEN RetFalse ELSE RetTrue, FALSE, projThrows)
  /\ UNCHANGED <<camPos, camRot, camFov, camZoom, hasControls>>

setNavigationMode(mode, projThrows, navThrows) ==
  /\ IF mode \notin NavigationModes
     THEN /\ lastCall' = Call("setNavigationMode", mode, RetFalse, FALSE, FALSE)
          /\ UNCHANGED <<camProjection, camMode, projectionMode, navigationMode>>
     ELSE /\ ApplyCamState(NavigationSwitch(CamState, mode, projThrows, navThrows))
          /\ lastCall' = Call("setNavigationMode", mode,
                              IF navThrows THEN RetFalse ELSE RetTrue, FALSE, navThrows)
  /\ UNCHANGED <<camPos, camRot, camFov, camZoom, hasControls>>

(* ------------------------------------------------------------------ *)
(* VisibilityManager                                                  *)
(* ------------------------------------------------------------------ *)
\* models offered for loading: two share a name and have no uuid, one of
\* them spells a category in lower case
CandidateModels ==
  {[uuid |-> "", name |-> "A", hasProperties |-> TRUE,
    properties |-> <<[category |-> "WALL", expressID |-> 1]>>],
   [uuid |-> "", name |-> "A", hasProperties |-> TRUE,
    properties |-> <<[category |-> "wall", expressID |-> 2],
                     [category |-> "DOOR", expressID |-> 3]>>],
   [uuid |-> "u3", name |-> "B", hasProperties |-> TRUE,
    properties |-> <<[category |-> "DOOR", expressID |-> 1],
                     [category |-> "", expressID |-> 4]>>]}

\* category lists offered to the category methods
CategoryInputs == {<<>>, <<"wall">>, <<"DOOR">>, <<"ROOF">>}

\* String.prototype.toUpperCase() on the category names of the model
ToUpperCase(c) == CASE c = "wall" -> "WALL"
                    [] c = "door" -> "DOOR"
                    [] OTHER -> c

SeqRange(q) == {q[j] : j \in 1..Len(q)}

\* Array.prototype.join(',') of a list of express ids
RECURSIVE Join(_)
Join(ids) == IF Len(ids) = 0 THEN ""
             ELSE IF Len(ids) = 1 THEN ToString(ids[1])
             ELSE ToString(ids[1]) \o "," \o Join(Tail(ids))

InitVisibility ==
  /\ hiderInitDone = FALSE
  /\ hider = Null
  /\ hiddenItems = EmptyMap
  /\ isolatedItems = EmptyMap
  /\ hasFragmentsManager = TRUE
  /\ models = <<>>
  /\ visible = {}

\* every item of every loaded model
AllItems == UNION {{<<i, models[i].properties[j].expressID>> :
                      j \in 1..Len(models[i].properties)} : i \in 1..Len(models)}

\* the category of an item, as the model's properties give it
ItemCategory(item) ==
  LET props == models[item[1]].properties
  IN  props[CHOOSE j \in 1..Len(props) : props[j].expressID = item[2]].category

\* a model is loaded into the fragments manager; its items start visible
LoadModel(m) ==
  /\ hasFragmentsManager
  /\ Len(models) < MaxModels
  /\ m \notin SeqRange(models)
  /\ models' = Append(models, m)
  /\ visible' = visible \cup {<<Len(models) + 1, m.properties[j].expressID>> :
                                j \in 1..Len(m.properties)}
  /\ lastCall' = NoCall
  /\ UNCHANGED <<hiderInitDone, hider, hiddenItems, isolatedItems, hasFragmentsManager>>

VisibilityInit(found) ==
  /\ ~hiderInitDone
  /\ hiderInitDone' = TRUE
  /\ hider' = IF found THEN "Hider" ELSE Null
  /\ lastCall' = Call("VisibilityManager.init", Null,
                      IF found THEN RetTrue ELSE RetFalse, ~found, FALSE)
  /\ UNCHANGED <<hiddenItems, isolatedItems, hasFragmentsManager, models, visible>>

\* the ids getItemsByCategory collects from one model
MatchingIds(model, categorySet) ==
  LET hits == SelectSeq(model.properties,
                        LAMBDA prop : prop.category # "" /\
                                      ToUpperCase(prop.category) \in categorySet)
  IN  [j \in 1..Len(hits) |-> hits[j].expressID]

\* the key getItemsByCategory files a model's ids under
ResultKey(model, result) ==
  IF model.uuid # "" THEN model.uuid
  ELSE IF model.name # "" THEN model.name
  ELSE ToString(MapSize(result))

\* the loop of getItemsByCategory over the models from index k on
RECURSIVE CollectItems(_, _, _)
CollectItems(k, categorySet, result) ==
  IF k > Len(models) THEN result
  ELSE IF ~models[k].hasProperties \/ Len(MatchingIds(models[k], categorySet)) = 0
  THEN CollectItems(k + 1, categorySet, result)
  ELSE CollectItems(k + 1, categorySet,
                    MapSet(result, ResultKey(models[k], result),
                           MatchingIds(models[k], categorySet)))

getItemsByCategory(categories) ==
  CollectItems(1, {ToUpperCase(categories[j]) : j \in 1..Len(categories)}, EmptyMap)

\* the id a loaded model is known to the hider by
HiderModelId(model) == IF model.uuid # "" THEN model.uuid ELSE model.name

\* the items a model-id map of the hider designates
Designated(idMap) ==
  {item \in AllItems : /\ HiderModelId(models[item[1]]) \in DOMAIN idMap
                       /\ item[2] \in SeqRange(idMap[HiderModelId(models[item[1]])])}

\* hider.set(flag, idMap)
HiderSetMap(flag, idMap) == IF flag THEN visible \cup Designated(idMap)
                            ELSE visible \ Designated(idMap)

\* hider.set(flag)
HiderSetAll(flag) == IF flag THEN AllItems ELSE {}

\* hider.isolate(idMap)
HiderIsolate(idMap) == Designated(idMap)

\* the entries hideByCategory / isolateByCategory add to their bookkeeping map
Tracked(tracker, idMap, categories) ==
  [key \in (DOMAIN tracker) \cup {id \o ":" \o Join(idMap[id]) : id \in DOMAIN idMap} |->
     IF \E id \in DOMAIN idMap : key = id \o ":" \o Join(idMap[id])
     THEN LET id == CHOOSE id \in DOMAIN idMap : key = id \o ":" \o Join(idMap[id])
          IN  [modelId |-> id, itemIds |-> idMap[id], type |-> "category",
               categories |-> categories]
     ELSE tracker[key]]

\* the shape shared by the four category methods: effect is the visible set
\* the hider call produces, trackedHidden / trackedIsolated the bookkeeping
CategoryMethod(op, categories, throws, effect, trackedHidden, trackedIsolated) ==
  IF hider = Null \/ ~hasFragmentsManager
  THEN /\ lastCall' = Call(op, categories, RetFalse, TRUE, FALSE)
       /\ UNCHANGED visVars
  ELSE IF MapSize(getItemsByCategory(categories)) = 0
  THEN /\ lastCall' = Call(op, categories, RetFalse, FALSE, FALSE)
       /\ UNCHANGED visVars
  ELSE IF throws
  THEN /\ lastCall' = Call(op, categories, RetFalse, FALSE, TRUE)
       /\ UNCHANGED visVars
  ELSE /\ visible' = effect
       /\ hiddenItems' = trackedHidden
       /\ isolatedItems' = trackedIsolated
       /\ lastCall' = Call(op, categories, RetTrue, FALSE, FALSE)
       /\ UNCHANGED <<hiderInitDone, hider, hasFragmentsManager, models>>

hideByCategory(categories, throws) ==
  CategoryMethod("hideByCategory", categories, throws,
                 HiderSetMap(FALSE, getItemsByCategory(categories)),
                 Tracked(hiddenItems, getItemsByCategory(categories), categories),
                 isolatedItems)

isolateByCategory(categories, throws) ==
  CategoryMethod("isolateByCategory", categories, throws,
                 HiderIsolate(getItemsByCategory(categories)),
                 hiddenItems,
                 Tracked(isolatedItems, getItemsByCategory(categories), categories))

hideCategoriesCompletely(categories, throws) ==
  CategoryMethod("hideCategoriesCompletely", categories, throws,
                 HiderSetMap(FALSE, getItemsByCategory(categories)),
                 hiddenItems, isolatedItems)

showCategories(categories, throws) ==
  CategoryMethod("showCategories", categories, throws,
                 HiderSetMap(TRUE, getItemsByCategory(categories)),
                 hiddenItems, isolatedItems)

\* a showAll that leaves the tracking map as it is
ShowAllKeeps(tracker) == tracker

\* what showAll leaves in a bookkeeping map
ShowAllClears(tracker) == EmptyMap

showAll(throws) ==
  IF hider = Null
  THEN /\ lastCall' = Call("showAll", Null, RetFalse, TRUE, FALSE)
       /\ UNCHANGED visVars
  ELSE IF throws
  THEN /\ lastCall' = Call("showAll", Null, RetFalse, FALSE, TRUE)
       /\ UNCHANGED visVars
  ELSE /\ visible' = HiderSetAll(TRUE)
       /\ hiddenItems' = ShowAllClears(hiddenItems)
       /\ isolatedItems' = ShowAllClears(isolatedItems)
       /\ lastCall' = Call("showAll", Null, RetTrue, FALSE, FALSE)
       /\ UNCHANGED <<hiderInitDone, hider, hasFragmentsManager, models>>

hideAll(throws) ==
  IF hider = Null
  THEN /\ lastCall' = Call("hideAll", Null, RetFalse, TRUE, FALSE)
       /\ UNCHANGED visVars
  ELSE IF throws
  THEN /\ lastCall' = Call("hideAll", Null, RetFalse, FALSE, TRUE)
       /\ UNCHANGED visVars
  ELSE /\ visible' = HiderSetAll(FALSE)
       /\ lastCall' = Call("hideAll", Null, RetTrue, FALSE, FALSE)
       /\ UNCHANGED <<hiderInitDone, hider, hiddenItems, isolatedItems,
                      hasFragmentsManager, models>>

(* ------------------------------------------------------------------ *)
(* AreaMeasurementManager and LengthMeasurementManager                *)
(* ------------------------------------------------------------------ *)
InitMeasurement ==
  /\ areaMeasurer = Null
  /\ areaEnabled = FALSE
  /\ areaMeasurerEnabled = FALSE
  /\ lengthMeasurer = Null
  /\ lengthEnabled = FALSE
  /\ lengthMeasurerEnabled = FALSE
  /\ ondblclick = Null

\* how an init() of a measurement manager goes: the component class is there
\* and constructs, the class is missing from the front module, or the
\* constructor throws
InitOutcomes == {"ok", "missing", "throws"}

\* the container's ondblclick property after AreaMeasurementManager.init()
AreaInitHandler(outcome) == IF outcome = "ok" THEN "area" ELSE ondblclick

\* the container's ondblclick property after LengthMeasurementManager.init()
LengthInitHandler(outcome) == IF outcome = "ok" THEN "length" ELSE ondblclick

AreaMeasurementInit(outcome) ==
  /\ areaMeasurer' = IF outcome = "ok" THEN "AreaMeasurement" ELSE areaMeasurer
  /\ areaMeasurerEnabled' = IF outcome = "ok" THEN FALSE ELSE areaMeasurerEnabled
  /\ ondblclick' = AreaInitHandler(outcome)
  /\ lastCall' = Call("AreaMeasurementManager.init", Null,
                      IF outcome = "ok" THEN RetTrue ELSE RetFalse,
                      outcome = "missing", outcome = "throws")
  /\ UNCHANGED <<areaEnabled, lengthMeasurer, lengthEnabled, lengthMeasurerEnabled>>

LengthMeasurementInit(outcome) ==
  /\ lengthMeasurer' = IF outcome = "ok" THEN "LengthMeasurement" ELSE lengthMeasurer
  /\ lengthMeasurerEnabled' = IF outcome = "ok" THEN FALSE ELSE lengthMeasurerEnabled
  /\ ondblclick' = LengthInitHandler(outcome)
  /\ lastCall' = Call("LengthMeasurementManager.init", Null,
                      IF outcome = "ok" THEN RetTrue ELSE RetFalse,
                      outcome = "missing", outcome = "throws")
  /\ UNCHANGED <<areaMeasurer, areaEnabled, areaMeasurerEnabled, lengthEnabled>>

\* AreaMeasurementManager.toggle(enabled); throws: setting measurer.enabled threw
AreaToggle(enabled, throws) ==
  /\ IF areaMeasurer = Null
     THEN /\ lastCall' = Call("AreaMeasurementManager.toggle", Null, RetUndefined, TRUE, FALSE)
          /\ UNCHANGED <<areaEnabled, areaMeasurerEnabled>>
     ELSE /\ areaEnabled' = enabled
          /\ areaMeasurerEnabled' = IF throws THEN areaMeasurerEnabled ELSE enabled
          /\ lastCall' = Call("AreaMeasurementManager.toggle", Null,
                              IF throws THEN Thrown ELSE RetUndefined, FALSE, throws)
  /\ UNCHANGED <<areaMeasurer, lengthMeasurer, lengthEnabled, lengthMeasurerEnabled, ondblclick>>

\* AreaMeasurementManager.setColor(color); throws: measurer.color.setStyle threw
AreaSetColor(throws) ==
  /\ lastCall' = IF areaMeasurer = Null
                 THEN Call("AreaMeasurementManager.setColor", Null, RetUndefined, TRUE, FALSE)
                 ELSE Call("AreaMeasurementManager.setColor", Null,
                           IF throws THEN Thrown ELSE RetUndefined, FALSE, throws)
  /\ UNCHANGED measVars

\* AreaMeasurementManager.clearAll(); throws: measurer.deleteAll threw
AreaClearAll(throws) ==
  /\ lastCall' = Call("AreaMeasurementManager.clearAll", Null, RetUndefined,
                      areaMeasurer = Null, areaMeasurer # Null /\ throws)
  /\ UNCHANGED measVars

\* LengthMeasurementManager.toggle(enabled)
LengthToggle(enabled, throws) ==
  /\ IF lengthMeasurer = Null
     THEN /\ lastCall' = Call("LengthMeasurementManager.toggle", Null, RetFalse, TRUE, FALSE)
          /\ UNCHANGED <<lengthEnabled, lengthMeasurerEnabled>>
     ELSE /\ lengthEnabled' = enabled
          /\ lengthMeasurerEnabled' = IF throws THEN lengthMeasurerEnabled ELSE enabled
          /\ lastCall' = Call("LengthMeasurementManager.toggle", Null,
                              IF throws THEN Thrown ELSE RetTrue, FALSE, throws)
  /\ UNCHANGED <<areaMeasurer, areaEnabled, areaMeasurerEnabled, lengthMeasurer, ondblclick>>

\* LengthMeasurementManager.setColor(color)
LengthSetColor(throws) ==
  /\ lastCall' = IF lengthMeasurer = Null
                 THEN Call("LengthMeasurementManager.setColor", Null, RetFalse, TRUE, FALSE)
                 ELSE Call("LengthMeasurementManager.setColor", Null,
                           IF throws THEN RetFalse ELSE RetTrue, FALSE, throws)
  /\ UNCHANGED measVars

\* the measurer create() calls a double-click on the container leads to
\* through the handler in its ondblclick property
CreatesOnDblclick ==
  IF ondblclick = "area" /\ areaMeasurer # Null /\ areaEnabled
  THEN {"AreaMeasurement.create"}
  ELSE IF ondblclick = "length" /\ lengthMeasurer # Null /\ lengthEnabled
  THEN {"LengthMeasurement.create"}
  ELSE {}

\* a double-click on the viewer container runs its ondblclick handler
ContainerOnDblclick ==
  /\ lastCall' = [Call("dblclick", Null, RetUndefined, FALSE, FALSE)
                    EXCEPT !.val = CreatesOnDblclick]
  /\ UNCHANGED measVars

(* ------------------------------------------------------------------ *)
(* ClipperManager and ViewCubeManager                                 *)
(* ------------------------------------------------------------------ *)
InitClipper ==
  /\ clipper = Null
  /\ clipperEnabled = FALSE
  /\ viewCubeControls = TRUE

ClipperInit(found) ==
  /\ clipper = Null
  /\ clipper' = IF found THEN "Clipper" ELSE Null
  /\ clipperEnabled' = FALSE
  /\ lastCall' = Call("ClipperManager.init", Null,
                      IF found THEN RetTrue ELSE RetFalse, ~found, FALSE)
  /\ UNCHANGED viewCubeControls

\* ClipperManager.setEnabled(enabled); throws: setting clipper.enabled threw
ClipperSetEnabled(enabled, throws) ==
  /\ IF clipper = Null
     THEN /\ lastCall' = Call("ClipperManager.setEnabled", enabled, RetFalse, TRUE, FALSE)
          /\ UNCHANGED clipperEnabled
     ELSE IF throws
     THEN /\ lastCall' = Call("ClipperManager.setEnabled", enabled, RetFalse, FALSE, TRUE)
          /\ UNCHANGED clipperEnabled
     ELSE /\ clipperEnabled' = enabled
          /\ lastCall' = Call("ClipperManager.setEnabled", enabled, RetTrue, FALSE, FALSE)
  /\ UNCHANGED <<clipper, viewCubeControls>>

\* the view names navigateToView knows, with the side of the model each looks from
ViewConfigs ==
  [front |-> <<0, 0, 1>>, back |-> <<0, 0, -1>>, left |-> <<-1, 0, 0>>,
   right |-> <<1, 0, 0>>, top |-> <<0, 1, 0>>, bottom |-> <<0, -1, 0>>]

\* view names offered to navigateToView, one of them unknown
CubeViewInputs == {"front", "top", "corner"}

\* the camera distance navigateToView uses when the scene has no bounding box
DefaultViewDistance == 20

\* ViewCubeManager.navigateToView(viewName) in a scene without a bounding box;
\* throws: controls.setLookAt threw
NavigateToView(viewName, throws) ==
  IF ~viewCubeControls
  THEN /\ lastCall' = Call("navigateToView", viewName, RetFalse, TRUE, FALSE)
       /\ UNCHANGED cameraVars
  ELSE IF viewName \notin DOMAIN ViewConfigs
  THEN /\ lastCall' = Call("navigateToView", viewName, RetFalse, FALSE, FALSE)
       /\ UNCHANGED cameraVars
  ELSE IF throws
  THEN /\ lastCall' = Call("navigateToView", viewName, RetFalse, FALSE, TRUE)
       /\ UNCHANGED cameraVars
  ELSE /\ camPos' = IF hasControls
                    THEN VAdd(Origin, VScale(ViewConfigs[viewName], DefaultViewDistance))
                    ELSE camPos
       /\ camRot' = IF hasControls
                    THEN SetLookAtRotation(
                           VAdd(Origin, VScale(ViewConfigs[viewName], DefaultViewDistance)),
                           Origin)
                    ELSE camRot
       /\ lastCall' = Call("navigateToView", viewName, RetTrue, FALSE, FALSE)
       /\ UNCHANGED <<camProjection, camMode, camFov, camZoom, hasControls>>

(* ------------------------------------------------------------------ *)
(* initApp: the start-up race, the manager initialisation, the panel  *)
(* ------------------------------------------------------------------ *)
ManagerOrder ==
  <<"area", "length", "ifc", "camera", "views", "clipper", "finder", "visibility",
    "fragments", "grids", "highlighter">>

Managers == SeqRange(ManagerOrder)

\* managers whose init is modelled by its outcome alone
PlainManagers == {"camera", "finder", "fragments", "grids", "highlighter"}

\* the panel sections rendered whatever the init returned
AlwaysRendered == {"length", "highlighter"}

\* the sections whose handlers are in the panel template itself
TemplateBound == {"area", "grids", "length", "highlighter"}

IndexOf(m) == CHOOSE i \in 1..Len(ManagerOrder) : ManagerOrder[i] = m

\* where initApp goes once the init of m has returned
AfterInit(m) ==
  IF m = "views" THEN "presets"
  ELSE IF IndexOf(m) < Len(ManagerOrder) THEN ManagerOrder[IndexOf(m) + 1]
  ELSE "ui"

InitBoot ==
  /\ pc = "start"
  /\ updateState = "none"
  /\ timerState = "none"
  /\ ready = [m \in Managers |-> "none"]
  /\ initLog = <<>>
  /\ bound = {}
  /\ disabledControls = {}

\* fragments.core.update(true) is called and raced against the 2000 ms timer;
\* updateThrows: the call itself threw before the timer was created
BootStart(updateThrows) ==
  /\ pc = "start"
  /\ IF updateThrows
     THEN /\ updateState' = "threw"
          /\ timerState' = timerState
          /\ pc' = "area"
     ELSE /\ updateState' = "pending"
          /\ timerState' = "armed"
          /\ pc' = "awaitUpdate"
  /\ UNCHANGED <<ready, initLog, bound, disabledControls>>
  /\ UNCHANGED <<lastCall, outsideBoot>>

\* the update promise resolves or rejects
UpdateSettles(outcome) ==
  /\ updateState = "pending"
  /\ updateState' = outcome
  /\ UNCHANGED <<pc, timerState, ready, initLog, bound, disabledControls>>
  /\ UNCHANGED <<lastCall, outsideBoot>>

\* the 2000 ms timer fires and resolves the timeout promise
BootTimerFires ==
  /\ timerState = "armed"
  /\ timerState' = "fired"
  /\ UNCHANGED <<pc, updateState, ready, initLog, bound, disabledControls>>
  /\ UNCHANGED <<lastCall, outsideBoot>>

\* the race settles with the update alone, as if no timer had been raced
RaceSettledByUpdateOnly == updateState \in {"resolved", "rejected"}

\* Promise.race settles as soon as either promise has settled
RaceSettled == updateState \in {"resolved", "rejected"} \/ timerState = "fired"

\* initApp resumes after the awaited race, or in its catch block
BootAfterRace ==
  /\ pc = "awaitUpdate"
  /\ RaceSettled
  /\ pc' = "area"
  /\ UNCHANGED <<updateState, timerState, ready, initLog, bound, disabledControls>>
  /\ UNCHANGED <<lastCall, outsideBoot>>

\* initApp called the init of m, got result back and went on
InitReturned(m, result) ==
  /\ ready' = [ready EXCEPT ![m] = IF result THEN "true" ELSE "false"]
  /\ initLog' = initLog \o <<<<"begin", m>>, <<"end", m>>>>
  /\ pc' = AfterInit(m)
  /\ UNCHANGED <<updateState, timerState, bound, disabledControls>>

BootArea(outcome) ==
  /\ pc = "area"
  /\ AreaMeasurementInit(outcome)
  /\ InitReturned("area", outcome = "ok")

BootLength(outcome) ==
  /\ pc = "length"
  /\ LengthMeasurementInit(outcome)
  /\ InitReturned("length", outcome = "ok")

\* initApp does not go on as if the init of the IFC loader were not awaited
NotAwaited == FALSE

\* initApp awaits the init of the IFC loader
Awaited == TRUE

\* IfcLoaderManager.init() up to its await of loader.setup
IfcInitBegin(found) ==
  /\ pc = "ifc"
  /\ ready["ifc"] = "none"
  /\ IF ~found
     THEN /\ InitReturned("ifc", FALSE)
          /\ lastCall' = Call("IfcLoaderManager.init", Null, RetFalse, TRUE, FALSE)
     ELSE /\ ready' = [ready EXCEPT !["ifc"] = "running"]
          /\ initLog' = Append(initLog, <<"begin", "ifc">>)
          /\ pc' = IF Awaited THEN "ifcWait" ELSE AfterInit("ifc")
          /\ lastCall' = lastCall
          /\ UNCHANGED <<updateState, timerState, bound, disabledControls>>

\* loader.setup settles and IfcLoaderManager.init() returns
IfcInitEnd(ok) ==
  /\ ready["ifc"] = "running"
  /\ ready' = [ready EXCEPT !["ifc"] = IF ok THEN "true" ELSE "false"]
  /\ initLog' = Append(initLog, <<"end", "ifc">>)
  /\ pc' = IF pc = "ifcWait" THEN AfterInit("ifc") ELSE pc
  /\ lastCall' = Call("IfcLoaderManager.init", Null,
                      IF ok THEN RetTrue ELSE RetFalse, FALSE, ~ok)
  /\ UNCHANGED <<updateState, timerState, bound, disabledControls>>

\* the init of a manager modelled by its outcome
BootPlain(m, ok) ==
  /\ pc = m
  /\ m \in PlainManagers
  /\ lastCall' = Call(m \o ".init", Null, IF ok THEN RetTrue ELSE RetFalse, ~ok, FALSE)
  /\ InitReturned(m, ok)

BootViews(found, ray) ==
  /\ pc = "views"
  /\ ViewsInit(found, ray)
  /\ InitReturned("views", lastCall'.ret = RetTrue)

\* viewsManager.createPresetViews(), called whatever init returned
BootPresets ==
  /\ pc = "presets"
  /\ createPresetViews
  /\ pc' = "clipper"
  /\ UNCHANGED <<updateState, timerState, ready, initLog, bound, disabledControls>>

BootClipper(found) ==
  /\ pc = "clipper"
  /\ ClipperInit(found)
  /\ InitReturned("clipper", found)

BootVisibility(found) ==
  /\ pc = "visibility"
  /\ VisibilityInit(found)
  /\ InitReturned("visibility", lastCall'.ret = RetTrue)

\* whether the panel template renders the section of m with its handlers
PanelRenders(m) == m \in AlwaysRendered \/ ready[m] = "true"

\* the panel template is rendered
BuildPanel ==
  /\ pc = "ui"
  /\ bound' = {m \in TemplateBound : PanelRenders(m)}
  /\ disabledControls' = {m \in AlwaysRendered : ready[m] # "true"}
  /\ pc' = "theme"
  /\ UNCHANGED <<updateState, timerState, ready, initLog>>
  /\ UNCHANGED <<lastCall, outsideBoot>>

\* the guarded set-up blocks that fill the remaining sections
SetupControls ==
  /\ pc = "controls"
  /\ bound' = bound \cup {m \in Managers \ TemplateBound : ready[m] = "true"}
  /\ pc' = "done"
  /\ UNCHANGED <<updateState, timerState, ready, initLog, disabledControls>>
  /\ UNCHANGED <<lastCall, outsideBoot>>

(* ------------------------------------------------------------------ *)
(* The theme toggle                                                   *)
(* ------------------------------------------------------------------ *)
InitTheme ==
  /\ darkMode = FALSE
  /\ storedTheme = Null
  /\ themeReady = FALSE
  /\ themeAtUnload = Null

\* localStorage.getItem('theme') || 'light'
SavedTheme == IF storedTheme # Null THEN storedTheme ELSE "light"

\* the theme the body shows
ShownTheme == IF darkMode THEN "dark" ELSE "light"

setupThemeToggle ==
  /\ pc = "theme"
  /\ darkMode' = IF SavedTheme = "dark" THEN TRUE ELSE darkMode
  /\ themeReady' = TRUE
  /\ pc' = "controls"
  /\ lastCall' = Call("setupThemeToggle", Null, RetUndefined, FALSE, FALSE)
  /\ UNCHANGED <<storedTheme, themeAtUnload>>
  /\ UNCHANGED <<updateState, timerState, ready, initLog, bound, disabledControls>>

\* a toggle that stores nothing
StoredAfterToggleKept == storedTheme

\* what toggleTheme writes to localStorage
StoredAfterToggle == IF darkMode THEN "light" ELSE "dark"

\* a click on the theme button; val keeps the theme the click found
toggleTheme ==
  /\ themeReady
  /\ darkMode' = ~darkMode
  /\ storedTheme' = StoredAfterToggle
  /\ lastCall' = [Call("toggleTheme", Null, RetUndefined, FALSE, FALSE)
                    EXCEPT !.val = [darkMode |-> darkMode, storedTheme |-> storedTheme]]
  /\ UNCHANGED <<themeReady, themeAtUnload>>

(* ------------------------------------------------------------------ *)
(* Clipping planes and the double-click listeners of initApp          *)
(* ------------------------------------------------------------------ *)
\* the most clipping planes the clipper holds
MaxPlanes == 2

\* the most createCustomSection calls followed while they wait for a raycast
MaxJobs == 2

InitDblclick ==
  /\ isCreatingSection = FALSE
  /\ sectionJobs = 0
  /\ isCreatingPlane = FALSE
  /\ planes = EmptyMap

\* ClipperManager.isEnabled()
isEnabled == IF clipper # Null THEN clipperEnabled ELSE FALSE

\* a toggle that switches the flag off whatever it was
FlippedOff(flag) == FALSE

\* clipping.enabled = !clipping.enabled
Flipped(flag) == ~flag

\* ClipperManager.toggleClippings(); val keeps the flags the call found
toggleClippings ==
  /\ IF clipper = Null
     THEN /\ lastCall' = Call("toggleClippings", Null, RetFalse, TRUE, FALSE)
          /\ UNCHANGED planes
     ELSE /\ planes' = [id \in DOMAIN planes |-> Flipped(planes[id])]
          /\ lastCall' = [Call("toggleClippings", Null, RetTrue, FALSE, FALSE)
                            EXCEPT !.val = planes]
  /\ UNCHANGED <<isCreatingSection, sectionJobs, isCreatingPlane>>

\* ClipperManager.deleteAllClippingPlanes()
deleteAllClippingPlanes ==
  /\ IF clipper = Null
     THEN /\ lastCall' = Call("deleteAllClippingPlanes", Null, RetFalse, TRUE, FALSE)
          /\ UNCHANGED planes
     ELSE /\ planes' = EmptyMap
          /\ lastCall' = Call("deleteAllClippingPlanes", Null, RetTrue, FALSE, FALSE)
  /\ UNCHANGED <<isCreatingSection, sectionJobs, isCreatingPlane>>

\* clipper.list after ClipperManager.createClippingPlane(); hit: the library's
\* raycast found a surface to put the plane on
PlanesAfterCreate(hit) ==
  IF clipper # Null /\ clipperEnabled /\ hit
  THEN MapSet(planes, MapSize(planes) + 1, TRUE)
  ELSE planes

\* the clipper's dblclick listener on the container, attached when the
\* clipper manager's init returned true: createClippingPlane
\* awaits nothing, so the listener is through, its flag released, before
\* any other event is handled
ClipperOnDblclick(hit) ==
  /\ clipper # Null
  /\ MapSize(PlanesAfterCreate(hit)) <= MaxPlanes
  /\ planes' = IF isEnabled /\ ~isCreatingPlane THEN PlanesAfterCreate(hit) ELSE planes
  /\ isCreatingPlane' = IF isEnabled /\ ~isCreatingPlane THEN FALSE ELSE isCreatingPlane
  /\ lastCall' = [Call("clipper.dblclick", Null, RetUndefined, FALSE, FALSE)
                    EXCEPT !.val = IF isEnabled /\ ~isCreatingPlane
                                   THEN {"createClippingPlane"} ELSE {}]
  /\ UNCHANGED <<isCreatingSection, sectionJobs>>

\* a listener that takes Sections mode to be on
SectionsModeAlwaysOn == TRUE

\* the listener's first test: viewsManager.sectionsEnabled
SectionsModeOn == sectionsEnabled

\* a listener that never finds a creation running
DblclickNeverBusy == FALSE

\* the listener's second test: isCreatingSection
DblclickBusy == isCreatingSection

\* the views dblclick listener on the container, attached when the views
\* manager's init returned true, up to its await of
\* createCustomSection(); val holds the manager calls it made. Without a
\* raycaster createCustomSection returns false before it awaits anything and
\* the listener is through in the same turn.
ViewsOnDblclick ==
  /\ viewsComponent # Null
  /\ IF ~SectionsModeOn \/ DblclickBusy
     THEN /\ lastCall' = Call("views.dblclick", Null, RetUndefined, FALSE, FALSE)
          /\ UNCHANGED <<isCreatingSection, sectionJobs>>
     ELSE IF ~raycasterReady
     THEN /\ lastCall' = [Call("views.dblclick", Null, RetFalse, TRUE, FALSE)
                            EXCEPT !.val = {"createCustomSection"}]
          /\ isCreatingSection' = FALSE
          /\ UNCHANGED sectionJobs
     ELSE /\ sectionJobs < MaxJobs
          /\ isCreatingSection' = TRUE
          /\ sectionJobs' = sectionJobs + 1
          /\ lastCall' = [Call("views.dblclick", Null, RetUndefined, FALSE, FALSE)
                            EXCEPT !.val = {"createCustomSection"}]
  /\ UNCHANGED <<isCreatingPlane, planes>>
  /\ UNCHANGED <<cameraVars, viewsVars>>

\* the raycast settles, createCustomSection() finishes and the listener
\* releases its flag
SectionCreationEnds(hit) ==
  /\ sectionJobs > 0
  /\ createCustomSection(Null, hit)
  /\ sectionJobs' = sectionJobs - 1
  /\ isCreatingSection' = FALSE
  /\ UNCHANGED <<isCreatingPlane, planes>>

(* ------------------------------------------------------------------ *)
(* IfcLoaderManager and the Load IFC button                           *)
(* ------------------------------------------------------------------ *)
NoJob == [via |-> "none", owner |-> "none", stage |-> "none"]

\* the progress values the converter reports, in percent
ProgressInputs == {50, 100}

\* where the camera stands once camera.fit has framed the meshes and the
\* position was shifted for the sidebar
FittedPosition == <<40, 30, 40>>

InitIfc ==
  /\ isLoading = FALSE
  /\ loadProgress = 0
  /\ loadJob = NoJob
  /\ onLoadComplete = FALSE
  /\ loadBtnDisabled = FALSE

\* the host page assigns a callback to ifcLoader.onLoadComplete
InstallOnLoadComplete ==
  /\ ready["ifc"] = "true"
  /\ ~onLoadComplete
  /\ onLoadComplete' = TRUE
  /\ lastCall' = NoCall
  /\ UNCHANGED <<isLoading, loadProgress, loadJob, loadBtnDisabled, cameraVars>>

\* CameraControlsManager.fitToAll(scene): meshes is whether the scene holds
\* any mesh
fitToAll(meshes) ==
  /\ camPos' = IF meshes THEN FittedPosition ELSE camPos
  /\ UNCHANGED <<camProjection, camMode, camRot, camFov, camZoom, hasControls>>

\* fitBtn.onclick
FitButton(meshes) ==
  /\ "camera" \in bound
  /\ fitToAll(meshes)
  /\ lastCall' = Call("fitToAll", Null, IF meshes THEN RetTrue ELSE RetFalse, FALSE, FALSE)
  /\ UNCHANGED ifcVars

\* the guard of loadFromFile and loadFromUrl lets every call through
NeverRefuses == FALSE

\* the guard of loadFromFile and loadFromUrl: a load is running
Refuses == isLoading

\* loadFromFile(file) or loadFromUrl(url) up to its first await; owner is the
\* caller that waits for the result
LoadBegins(via, owner) ==
  IF Refuses
  THEN /\ lastCall' = Call(via, owner, RetFalse, FALSE, FALSE)
       /\ UNCHANGED <<isLoading, loadProgress, loadJob>>
  ELSE /\ isLoading' = TRUE
       /\ loadProgress' = 0
       /\ loadJob' = [via |-> via, owner |-> owner, stage |-> "read"]
       /\ lastCall' = NoCall

\* a caller other than the Load button calls loadFromFile or loadFromUrl
LoadCalled(via) ==
  /\ ready["ifc"] = "true"
  /\ LoadBegins(via, "caller")
  /\ UNCHANGED <<onLoadComplete, loadBtnDisabled, cameraVars>>

\* loadBtn.onclick up to its await of loadFromFile; hasFile is whether a
\* file is selected. A refused call resolves at once, and the handler
\* enables the button again without fitting the camera
LoadClick(hasFile) ==
  /\ "ifc" \in bound
  /\ ~loadBtnDisabled
  /\ IF ~hasFile
     THEN /\ lastCall' = Call("loadBtn.onclick", Null, RetUndefined, TRUE, FALSE)
          /\ UNCHANGED <<isLoading, loadProgress, loadJob, loadBtnDisabled>>
     ELSE /\ LoadBegins("loadFromFile", "loadBtn")
          /\ loadBtnDisabled' = ~Refuses
  /\ UNCHANGED <<onLoadComplete, cameraVars>>

\* the Load button never fits the camera
AutoFitsNever(success) == FALSE

\* the condition under which loadBtn.onclick fits the camera
AutoFits(success) == success /\ ready["camera"] = "true"

\* the running load returns result; converted is whether loader.load
\* resolved, calls the callbacks loadFromBuffer called. The load that the
\* Load button awaits resumes its handler, which enables the button and
\* fits the camera
LoadReturns(result, converted, calls, meshes) ==
  /\ isLoading' = FALSE
  /\ loadJob' = NoJob
  /\ IF loadJob.owner = "loadBtn"
     THEN /\ loadBtnDisabled' = FALSE
          /\ IF AutoFits(result)
             THEN /\ fitToAll(meshes)
                  /\ lastCall' = [Call(loadJob.via, loadJob.owner,
                                       IF result THEN RetTrue ELSE RetFalse, FALSE, ~converted)
                                    EXCEPT !.val = calls \cup {"fitToAll"}]
             ELSE /\ UNCHANGED cameraVars
                  /\ lastCall' = [Call(loadJob.via, loadJob.owner,
                                       IF result THEN RetTrue ELSE RetFalse, FALSE, ~converted)
                                    EXCEPT !.val = calls]
     ELSE /\ UNCHANGED <<loadBtnDisabled, cameraVars>>
          /\ lastCall' = [Call(loadJob.via, loadJob.owner,
                               IF result THEN RetTrue ELSE RetFalse, FALSE, ~converted)
                            EXCEPT !.val = calls]
  /\ UNCHANGED <<loadProgress, onLoadComplete>>

\* the FileReader, or fetch and response.arrayBuffer, settle: with the
\* bytes, or with an error that the catch block turns into false
ReadSettles(ok, meshes) ==
  /\ loadJob.stage = "read"
  /\ IF ok
     THEN /\ loadJob' = [loadJob EXCEPT !.stage = "convert"]
          /\ lastCall' = NoCall
          /\ UNCHANGED <<isLoading, loadProgress, onLoadComplete, loadBtnDisabled, cameraVars>>
     ELSE LoadReturns(FALSE, FALSE, {}, meshes)

\* the progressCallback given to loader.load
ProgressCallback(progress) ==
  /\ loadJob.stage = "convert"
  /\ loadProgress' = progress
  /\ lastCall' = NoCall
  /\ UNCHANGED <<isLoading, loadJob, onLoadComplete, loadBtnDisabled, cameraVars>>

\* loader.load settles inside loadFromBuffer: resolved, loadFromBuffer goes
\* on to fragments.core.update; rejected, its catch block returns false to
\* the caller, which does not look at the value and returns true
ConvertSettles(ok, meshes) ==
  /\ loadJob.stage = "convert"
  /\ IF ok
     THEN /\ loadJob' = [loadJob EXCEPT !.stage = "update"]
          /\ lastCall' = NoCall
          /\ UNCHANGED <<isLoading, loadProgress, onLoadComplete, loadBtnDisabled, cameraVars>>
     ELSE LoadReturns(TRUE, FALSE, {}, meshes)

\* fragments.core.update settles either way, loadFromBuffer calls the
\* callback and returns true, and so does its caller
CoreUpdateSettles(meshes) ==
  /\ loadJob.stage = "update"
  /\ LoadReturns(TRUE, TRUE, IF onLoadComplete THEN {"onLoadComplete"} ELSE {}, meshes)

(* ------------------------------------------------------------------ *)
(* ItemsFinderManager                                                 *)
(* ------------------------------------------------------------------ *)
\* model ids of the fragments that get loaded
FragmentIds == {"model-1", "model-2"}

\* the keys of a result that executeQuery gives isolateItems: model ids,
\* one of them of a model that is not in the list
QueryResults == SUBSET (FragmentIds \cup {"model-0"})

\* originalFragments is null, or a one-element list holding the saved map
NoOriginal == <<>>

InitFinder ==
  /\ finder = Null
  /\ isolationEnabled = FALSE
  /\ originalFragments = NoOriginal
  /\ meshVisible = EmptyMap

\* ItemsFinderManager.init()
ItemsFinderInit(found) ==
  /\ finder = Null
  /\ finder' = IF found THEN "ItemsFinder" ELSE Null
  /\ lastCall' = Call("ItemsFinderManager.init", Null,
                      IF found THEN RetTrue ELSE RetFalse, ~found, FALSE)
  /\ UNCHANGED <<isolationEnabled, originalFragments, meshVisible, visVars>>

\* a model is loaded: its fragment enters the list with a visible mesh
FragmentLoaded(id) ==
  /\ hasFragmentsManager
  /\ ~MapHas(meshVisible, id)
  /\ meshVisible' = MapSet(meshVisible, id, TRUE)
  /\ lastCall' = NoCall
  /\ UNCHANGED <<finder, isolationEnabled, originalFragments, visVars>>

\* isolateItems(queryName): answered is whether its executeQuery returned
\* a result, result the keys of that result
isolateItems(answered, result) ==
  /\ finder = Null => ~answered
  /\ IF ~answered \/ ~hasFragmentsManager
     THEN /\ lastCall' = Call("isolateItems", Null, RetFalse, TRUE, FALSE)
          /\ UNCHANGED <<isolationEnabled, originalFragments, meshVisible>>
     ELSE /\ originalFragments' =
               IF originalFragments = NoOriginal THEN <<meshVisible>> ELSE originalFragments
          /\ meshVisible' = [id \in DOMAIN meshVisible |-> id \in result]
          /\ isolationEnabled' = TRUE
          /\ lastCall' = [Call("isolateItems", Null, RetTrue, FALSE, FALSE)
                            EXCEPT !.val = result]
  /\ UNCHANGED <<finder, visVars>>

\* the visibility resetIsolation gives the fragment id when a saved state
\* exists: the saved one, and for a fragment that is not in it the one it has
RestoredVisible(id) ==
  IF MapHas(originalFragments[1], id) THEN originalFragments[1][id] ELSE meshVisible[id]

resetIsolation ==
  /\ IF ~hasFragmentsManager
     THEN /\ lastCall' = Call("resetIsolation", Null, RetFalse, TRUE, FALSE)
          /\ UNCHANGED <<isolationEnabled, meshVisible>>
     ELSE /\ meshVisible' = [id \in DOMAIN meshVisible |->
                               IF originalFragments # NoOriginal THEN RestoredVisible(id) ELSE TRUE]
          /\ isolationEnabled' = FALSE
          /\ lastCall' = Call("resetIsolation", Null, RetTrue, FALSE, FALSE)
  /\ UNCHANGED <<finder, originalFragments, visVars>>

InitHandlers == InitDblclick /\ InitIfc /\ InitFinder

(* ------------------------------------------------------------------ *)
(* Specifications                                                     *)
(* ------------------------------------------------------------------ *)
\* the page as initApp finds it, whatever localStorage holds
InitPage ==
  /\ lastCall = NoCall
  /\ InitCamera
  /\ InitCameraControls
  /\ InitViews
  /\ InitVisibility
  /\ InitMeasurement
  /\ InitClipper
  /\ InitBoot
  /\ InitHandlers
  /\ darkMode = FALSE
  /\ themeReady = FALSE

Init ==
  /\ libFaulty = FALSE
  /\ InitPage
  /\ storedTheme = Null
  /\ themeAtUnload = Null

\* the browser leaves the page and loads it again: everything starts over,
\* localStorage stays
Reload ==
  /\ pc # "start"
  /\ themeAtUnload' = IF themeReady THEN ShownTheme ELSE themeAtUnload
  /\ storedTheme' = storedTheme
  /\ libFaulty' = libFaulty
  /\ lastCall' = NoCall
  /\ camProjection' = "Perspective" /\ camMode' = "Orbit"
  /\ camPos' = <<68, 23, -9>> /\ camRot' = LookDir(<<68, 23, -9>>, <<22, -6, 23>>)
  /\ camFov' = 60 /\ camZoom' = 1 /\ hasControls' = TRUE
  /\ projectionMode' = "Perspective" /\ navigationMode' = "Orbit"
  /\ viewsInitDone' = FALSE /\ viewsComponent' = Null /\ raycasterReady' = FALSE
  /\ savedViews' = EmptyMap /\ customSections' = EmptyMap /\ currentViewName' = Null
  /\ sectionsEnabled' = FALSE /\ previousProjection' = Null
  /\ previousNavigationMode' = Null /\ in2D' = FALSE /\ proj3D' = Null
  /\ hiderInitDone' = FALSE /\ hider' = Null /\ hiddenItems' = EmptyMap
  /\ isolatedItems' = EmptyMap /\ hasFragmentsManager' = TRUE /\ models' = <<>>
  /\ visible' = {}
  /\ areaMeasurer' = Null /\ areaEnabled' = FALSE /\ areaMeasurerEnabled' = FALSE
  /\ lengthMeasurer' = Null /\ lengthEnabled' = FALSE /\ lengthMeasurerEnabled' = FALSE
  /\ ondblclick' = Null
  /\ clipper' = Null /\ clipperEnabled' = FALSE /\ viewCubeControls' = TRUE
  /\ pc' = "start" /\ updateState' = "none" /\ timerState' = "none"
  /\ ready' = [m \in Managers |-> "none"] /\ initLog' = <<>>
  /\ bound' = {} /\ disabledControls' = {}
  /\ darkMode' = FALSE /\ themeReady' = FALSE
  /\ isCreatingSection' = FALSE /\ sectionJobs' = 0
  /\ isCreatingPlane' = FALSE /\ planes' = EmptyMap
  /\ isLoading' = FALSE /\ loadProgress' = 0 /\ loadJob' = NoJob
  /\ onLoadComplete' = FALSE /\ loadBtnDisabled' = FALSE
  /\ finder' = Null /\ isolationEnabled' = FALSE
  /\ originalFragments' = NoOriginal /\ meshVisible' = EmptyMap

\* saved views: the user moves the camera, saves, loads and deletes views
NextSaved ==
  \/ \E pose \in UserPoses : MoveCamera(pose) /\ UNCHANGED outsideViews
  \/ \E z \in 1..MaxZoom : ZoomCamera(z) /\ UNCHANGED outsideViews
  \/ \E n \in ViewNameInputs : saveCurrentView(n) /\ UNCHANGED outsideViews
  \/ \E n \in ViewNameInputs : loadView(n) /\ UNCHANGED outsideViews
  \/ \E n \in ViewNameInputs : deleteView(n) /\ UNCHANGED outsideViews
  \/ getViewNames /\ UNCHANGED outsideViews
  \/ clearAllViews /\ UNCHANGED outsideViews
  \/ createPresetViews /\ UNCHANGED outsideViews

\* the views manager may be given a camera without controls
InitSaved ==
  /\ libFaulty = FALSE
  /\ lastCall = NoCall
  /\ InitCamera!1 /\ InitCamera!2 /\ InitCamera!3 /\ InitCamera!4 /\ InitCamera!5 /\ InitCamera!6
  /\ hasControls \in BOOLEAN
  /\ InitCameraControls
  /\ InitViews
  /\ InitVisibility
  /\ InitMeasurement
  /\ InitClipper
  /\ InitBoot
  /\ InitHandlers
  /\ InitTheme

SpecSaved == InitSaved /\ [][NextSaved]_vars

\* custom sections and the 2D view, with the camera panel and saved views
NextSections ==
  \/ \E found \in BOOLEAN, ray \in BOOLEAN : ViewsInit(found, ray) /\ UNCHANGED outsideViews
  \/ \E hit \in RayHits \cup {NoHit} : createCustomSection(Null, hit) /\ UNCHANGED outsideViews
  \/ \E n \in SectionNameInputs : loadCustomSection(n) /\ UNCHANGED outsideViews
  \/ closeActiveView /\ UNCHANGED outsideViews
  \/ \E n \in SectionNameInputs : deleteCustomSection(n) /\ UNCHANGED outsideViews
  \/ saveCurrentView("My View") /\ UNCHANGED outsideViews
  \/ loadView("My View") /\ UNCHANGED outsideViews
  \/ clearAllViews /\ UNCHANGED outsideViews
  \/ \E mode \in ModeInputs, pt \in Faults, nt \in Faults :
       setProjectionMode(mode, pt, nt) /\ UNCHANGED outsideCameraControls
  \/ \E mode \in ModeInputs, pt \in Faults, nt \in Faults :
       setNavigationMode(mode, pt, nt) /\ UNCHANGED outsideCameraControls

SpecSections == Init /\ [][NextSections]_vars

\* VisibilityManager over the loaded models
NextVisibility ==
  \/ \E m \in CandidateModels : LoadModel(m) /\ UNCHANGED outsideVisibility
  \/ \E found \in BOOLEAN : VisibilityInit(found) /\ UNCHANGED outsideVisibility
  \/ \E c \in CategoryInputs, t \in Faults : hideByCategory(c, t) /\ UNCHANGED outsideVisibility
  \/ \E c \in CategoryInputs, t \in Faults : isolateByCategory(c, t) /\ UNCHANGED outsideVisibility
  \/ \E c \in CategoryInputs, t \in Faults :
       hideCategoriesCompletely(c, t) /\ UNCHANGED outsideVisibility
  \/ \E c \in CategoryInputs, t \in Faults : showCategories(c, t) /\ UNCHANGED outsideVisibility
  \/ \E t \in Faults : showAll(t) /\ UNCHANGED outsideVisibility
  \/ \E t \in Faults : hideAll(t) /\ UNCHANGED outsideVisibility

\* the component container may lack a fragments manager
InitVisibilitySpec ==
  /\ libFaulty = FALSE
  /\ lastCall = NoCall
  /\ InitCamera
  /\ InitCameraControls
  /\ InitViews
  /\ InitVisibility!1 /\ InitVisibility!2 /\ InitVisibility!3 /\ InitVisibility!4
  /\ hasFragmentsManager \in BOOLEAN
  /\ InitVisibility!6 /\ InitVisibility!7
  /\ InitMeasurement
  /\ InitClipper
  /\ InitBoot
  /\ InitHandlers
  /\ InitTheme

SpecVisibility == InitVisibilitySpec /\ [][NextVisibility]_vars

\* the managers called with their dependency missing or over a library that throws
InitErr ==
  /\ libFaulty = TRUE
  /\ lastCall = NoCall
  /\ InitCamera
  /\ InitCameraControls
  /\ InitViews
  /\ InitVisibility
  /\ InitMeasurement
  /\ InitClipper!1 /\ InitClipper!2
  /\ viewCubeControls \in BOOLEAN
  /\ InitBoot
  /\ InitHandlers
  /\ InitTheme

NextErr ==
  \/ \E o \in InitOutcomes : AreaMeasurementInit(o) /\ UNCHANGED outsideMeasurement
  \/ \E e \in BOOLEAN, t \in Faults : AreaToggle(e, t) /\ UNCHANGED outsideMeasurement
  \/ \E t \in Faults : AreaSetColor(t) /\ UNCHANGED outsideMeasurement
  \/ \E t \in Faults : AreaClearAll(t) /\ UNCHANGED outsideMeasurement
  \/ \E o \in InitOutcomes : LengthMeasurementInit(o) /\ UNCHANGED outsideMeasurement
  \/ \E e \in BOOLEAN, t \in Faults : LengthToggle(e, t) /\ UNCHANGED outsideMeasurement
  \/ \E t \in Faults : LengthSetColor(t) /\ UNCHANGED outsideMeasurement
  \/ \E found \in BOOLEAN : ClipperInit(found) /\ UNCHANGED outsideClipper
  \/ \E e \in BOOLEAN, t \in Faults : ClipperSetEnabled(e, t) /\ UNCHANGED outsideClipper
  \/ \E v \in CubeViewInputs, t \in Faults :
       NavigateToView(v, t) /\ UNCHANGED <<outsideViews, viewsVars>>
  \/ \E found \in BOOLEAN, ray \in BOOLEAN : ViewsInit(found, ray) /\ UNCHANGED outsideViews
  \/ getViewNames /\ UNCHANGED outsideViews
  \/ \E mode \in ModeInputs, pt \in Faults, nt \in Faults :
       setProjectionMode(mode, pt, nt) /\ UNCHANGED outsideCameraControls

SpecErr == InitErr /\ [][NextErr]_vars

\* initApp from the start-up race to the bound panel, with every outcome of
\* every init
NextBoot ==
  \/ \E t \in BOOLEAN : BootStart(t)
  \/ \E o \in {"resolved", "rejected"} : UpdateSettles(o)
  \/ BootTimerFires
  \/ BootAfterRace
  \/ \E o \in InitOutcomes :
       BootArea(o) /\ UNCHANGED <<libFaulty, handlerVars, cameraVars, ccVars, viewsVars, visVars, clipVars, themeVars>>
  \/ \E o \in InitOutcomes :
       BootLength(o) /\ UNCHANGED <<libFaulty, handlerVars, cameraVars, ccVars, viewsVars, visVars, clipVars, themeVars>>
  \/ \E found \in BOOLEAN : IfcInitBegin(found) /\ UNCHANGED outsideBoot
  \/ \E ok \in BOOLEAN : IfcInitEnd(ok) /\ UNCHANGED outsideBoot
  \/ \E m \in PlainManagers, ok \in BOOLEAN : BootPlain(m, ok) /\ UNCHANGED outsideBoot
  \/ \E found \in BOOLEAN, ray \in BOOLEAN :
       BootViews(found, ray) /\ UNCHANGED <<libFaulty, handlerVars, ccVars, visVars, measVars, clipVars, themeVars>>
  \/ BootPresets /\ UNCHANGED <<libFaulty, handlerVars, ccVars, visVars, measVars, clipVars, themeVars>>
  \/ \E found \in BOOLEAN :
       BootClipper(found) /\ UNCHANGED <<libFaulty, handlerVars, cameraVars, ccVars, viewsVars, visVars, measVars, themeVars>>
  \/ \E found \in BOOLEAN :
       BootVisibility(found) /\ UNCHANGED <<libFaulty, handlerVars, cameraVars, ccVars, viewsVars, measVars, clipVars, themeVars>>
  \/ BuildPanel
  \/ setupThemeToggle /\ UNCHANGED <<libFaulty, handlerVars, cameraVars, ccVars, viewsVars, visVars, measVars, clipVars>>
  \/ SetupControls

SpecBoot == Init /\ [][NextBoot]_vars

\* the browser runs a timer that is due and resumes an await whose promise
\* has settled
FairBoot == SpecBoot /\ WF_vars(BootTimerFires) /\ WF_vars(BootAfterRace)

\* the application in use: initApp with the measurement managers' inits going
\* either way, then the measurement checkboxes, double-clicks on the viewer,
\* the theme button and page reloads
NextApp ==
  \/ BootStart(FALSE)
  \/ UpdateSettles("resolved")
  \/ BootTimerFires
  \/ BootAfterRace
  \/ \E o \in InitOutcomes :
       BootArea(o) /\ UNCHANGED <<libFaulty, handlerVars, cameraVars, ccVars, viewsVars, visVars, clipVars, themeVars>>
  \/ \E o \in InitOutcomes :
       BootLength(o) /\ UNCHANGED <<libFaulty, handlerVars, cameraVars, ccVars, viewsVars, visVars, clipVars, themeVars>>
  \/ IfcInitBegin(TRUE) /\ UNCHANGED outsideBoot
  \/ IfcInitEnd(TRUE) /\ UNCHANGED outsideBoot
  \/ \E m \in PlainManagers : BootPlain(m, TRUE) /\ UNCHANGED outsideBoot
  \/ BootViews(TRUE, TRUE) /\ UNCHANGED <<libFaulty, handlerVars, ccVars, visVars, measVars, clipVars, themeVars>>
  \/ BootPresets /\ UNCHANGED <<libFaulty, handlerVars, ccVars, visVars, measVars, clipVars, themeVars>>
  \/ BootClipper(TRUE) /\ UNCHANGED <<libFaulty, handlerVars, cameraVars, ccVars, viewsVars, visVars, measVars, themeVars>>
  \/ BootVisibility(TRUE) /\ UNCHANGED <<libFaulty, handlerVars, cameraVars, ccVars, viewsVars, measVars, clipVars, themeVars>>
  \/ BuildPanel
  \/ setupThemeToggle /\ UNCHANGED <<libFaulty, handlerVars, cameraVars, ccVars, viewsVars, visVars, measVars, clipVars>>
  \/ SetupControls
  \/ \E e \in BOOLEAN :
       pc = "done" /\ "area" \in bound /\ AreaToggle(e, FALSE) /\ UNCHANGED outsideMeasurement
  \/ \E e \in BOOLEAN :
       /\ pc = "done" /\ "length" \in bound \ disabledControls
       /\ LengthToggle(e, FALSE) /\ UNCHANGED outsideMeasurement
  \/ pc \in {"awaitUpdate", "ifcWait", "done"} /\ ContainerOnDblclick /\ UNCHANGED outsideMeasurement
  \/ pc = "done" /\ toggleTheme
       /\ UNCHANGED <<libFaulty, handlerVars, cameraVars, ccVars, viewsVars, visVars, measVars, clipVars, bootVars>>
  \/ Reload

SpecApp == Init /\ [][NextApp]_vars

\* the views and clipper panels and the double-click listeners on the viewer
NextHandlers ==
  \/ \E found \in BOOLEAN, ray \in BOOLEAN : ViewsInit(found, ray) /\ UNCHANGED outsideViews
  \/ setSectionsEnabled(~sectionsEnabled) /\ UNCHANGED outsideViews
  \/ ViewsOnDblclick /\ UNCHANGED outsideDblclick
  \/ \E hit \in RayHits \cup {NoHit} : SectionCreationEnds(hit) /\ UNCHANGED outsideDblclick
  \/ \E n \in SectionNameInputs : deleteCustomSection(n) /\ UNCHANGED outsideViews
  \/ \E found \in BOOLEAN : ClipperInit(found) /\ UNCHANGED outsideClipper
  \/ ClipperSetEnabled(~isEnabled, FALSE) /\ UNCHANGED outsideClipper
  \/ \E hit \in BOOLEAN :
       ClipperOnDblclick(hit) /\ UNCHANGED <<outsideDblclick, cameraVars, viewsVars>>
  \/ toggleClippings /\ UNCHANGED <<outsideDblclick, cameraVars, viewsVars>>
  \/ deleteAllClippingPlanes /\ UNCHANGED <<outsideDblclick, cameraVars, viewsVars>>

SpecHandlers == Init /\ [][NextHandlers]_vars

\* initApp with the camera controls' init going either way, then the IFC
\* loader in use: the Load and Fit buttons and other callers of the loader
NextIfc ==
  \/ BootStart(FALSE)
  \/ BootTimerFires
  \/ BootAfterRace
  \/ BootArea("ok") /\ UNCHANGED <<libFaulty, handlerVars, cameraVars, ccVars, viewsVars, visVars, clipVars, themeVars>>
  \/ BootLength("ok") /\ UNCHANGED <<libFaulty, handlerVars, cameraVars, ccVars, viewsVars, visVars, clipVars, themeVars>>
  \/ IfcInitBegin(TRUE) /\ UNCHANGED outsideBoot
  \/ IfcInitEnd(TRUE) /\ UNCHANGED outsideBoot
  \/ \E m \in PlainManagers, ok \in BOOLEAN :
       (m = "camera" \/ ok) /\ BootPlain(m, ok) /\ UNCHANGED outsideBoot
  \/ BootViews(TRUE, TRUE) /\ UNCHANGED <<libFaulty, handlerVars, ccVars, visVars, measVars, clipVars, themeVars>>
  \/ BootPresets /\ UNCHANGED <<libFaulty, handlerVars, ccVars, visVars, measVars, clipVars, themeVars>>
  \/ BootClipper(TRUE) /\ UNCHANGED <<libFaulty, handlerVars, cameraVars, ccVars, viewsVars, visVars, measVars, themeVars>>
  \/ BootVisibility(TRUE) /\ UNCHANGED <<libFaulty, handlerVars, cameraVars, ccVars, viewsVars, measVars, clipVars, themeVars>>
  \/ BuildPanel
  \/ setupThemeToggle /\ UNCHANGED <<libFaulty, handlerVars, cameraVars, ccVars, viewsVars, visVars, measVars, clipVars>>
  \/ SetupControls
  \/ InstallOnLoadComplete /\ UNCHANGED outsideIfc
  \/ \E meshes \in BOOLEAN : FitButton(meshes) /\ UNCHANGED outsideIfc
  \/ \E via \in {"loadFromFile", "loadFromUrl"} : LoadCalled(via) /\ UNCHANGED outsideIfc
  \/ \E hasFile \in BOOLEAN : LoadClick(hasFile) /\ UNCHANGED outsideIfc
  \/ \E ok \in BOOLEAN, meshes \in BOOLEAN : ReadSettles(ok, meshes) /\ UNCHANGED outsideIfc
  \/ \E progress \in ProgressInputs : ProgressCallback(progress) /\ UNCHANGED outsideIfc
  \/ \E ok \in BOOLEAN, meshes \in BOOLEAN : ConvertSettles(ok, meshes) /\ UNCHANGED outsideIfc
  \/ \E meshes \in BOOLEAN : CoreUpdateSettles(meshes) /\ UNCHANGED outsideIfc

SpecIfc == Init /\ [][NextIfc]_vars

\* the two setters of the camera controls manager, called in any order with
\* any mode name, over a camera whose calls may throw
NextModes ==
  \/ \E mode \in ModeInputs, pt \in Faults, nt \in Faults :
       setProjectionMode(mode, pt, nt) /\ UNCHANGED outsideCameraControls
  \/ \E mode \in ModeInputs, pt \in Faults, nt \in Faults :
       setNavigationMode(mode, pt, nt) /\ UNCHANGED outsideCameraControls

SpecModes == InitErr /\ [][NextModes]_vars

\* models are loaded and items are isolated and shown again, in any order
NextFinder ==
  \/ \E found \in BOOLEAN : ItemsFinderInit(found) /\ UNCHANGED outsideFinder
  \/ \E id \in FragmentIds : FragmentLoaded(id) /\ UNCHANGED outsideFinder
  \/ \E answered \in BOOLEAN, result \in QueryResults :
       isolateItems(answered, result) /\ UNCHANGED outsideFinder
  \/ resetIsolation /\ UNCHANGED outsideFinder

SpecFinder == Init /\ [][NextFinder]_vars

(* ------------------------------------------------------------------ *)
(* Properties                                                         *)
(* ------------------------------------------------------------------ *)

\* C1: deleteView(name) on an existing saved view returns true, removes the
\* name from getViewNames() and leaves every other saved view as it was;
\* deleting the same name again returns false and changes neither savedViews
\* nor currentViewName.
C1_DeleteViewRemovesOnce ==
  [][lastCall'.op = "deleteView" =>
       /\ MapHas(savedViews, lastCall'.arg) =>
            /\ lastCall'.ret = RetTrue
            /\ DOMAIN savedViews' = (DOMAIN savedViews) \ {lastCall'.arg}
            /\ \A m \in DOMAIN savedViews' : savedViews'[m] = savedViews[m]
       /\ (lastCall.op = "deleteView" /\ lastCall.arg = lastCall'.arg /\ lastCall.ret = RetTrue) =>
            /\ lastCall'.ret = RetFalse
            /\ savedViews' = savedViews
            /\ currentViewName' = currentViewName]_vars

\* a preset has been deleted, a second deleteView of it was refused, and the
\* other presets are still there
C1_Witness ==
  /\ lastCall.op = "deleteView"
  /\ lastCall.arg = "Top View"
  /\ lastCall.ret = RetFalse
  /\ DOMAIN savedViews = (PresetViewNames \ {"Top View"}) \cup {"My View"}

\* C7: after loadView(n) succeeds the camera has the pose that saveCurrentView(n)
\* captured: the same position, rotation, fov and zoom.
C7_LoadViewRestoresPose ==
  (lastCall.op = "loadView" /\ lastCall.ret = RetTrue) =>
    /\ camPos = savedViews[lastCall.arg].position
    /\ camRot = savedViews[lastCall.arg].rotation
    /\ camFov = savedViews[lastCall.arg].fov
    /\ camZoom = savedViews[lastCall.arg].zoom

\* C5: when closeActiveView() closes a 2D section view, the camera projection
\* is the one that was active before the first section of the episode was
\* loaded, and previousProjection, previousNavigationMode and currentViewName
\* are cleared.
C5_CloseRestores3D ==
  (lastCall.op = "closeActiveView" /\ lastCall.ret = RetTrue) =>
    /\ proj3D # Null => camProjection = proj3D
    /\ previousProjection = Null
    /\ previousNavigationMode = Null
    /\ currentViewName = Null

\* a section view opened from Perspective has been closed, with two sections
\* in the list, one of them the last one shown
C5_Witness ==
  /\ lastCall.op = "closeActiveView"
  /\ lastCall.ret = RetTrue
  /\ proj3D = "Perspective"
  /\ camProjection = "Perspective"
  /\ MapSize(customSections) = 2
  /\ \E n \in DOMAIN customSections : customSections[n].helpersVisible

\* the items of all loaded models whose category is in the list, compared
\* without regard to case
ItemsOfCategories(categories) ==
  {item \in AllItems :
     /\ ItemCategory(item) # ""
     /\ \E j \in 1..Len(categories) :
          ToUpperCase(ItemCategory(item)) = ToUpperCase(categories[j])}

\* C2: after showAll() every loaded item is visible and hiddenItems and
\* isolatedItems are empty, whatever category calls came before.
C2_ShowAllRestores ==
  lastCall.op = "showAll" =>
    /\ visible = AllItems
    /\ hiddenItems = EmptyMap
    /\ isolatedItems = EmptyMap

\* showAll has succeeded with two models loaded
C2_Witness ==
  /\ lastCall.op = "showAll"
  /\ lastCall.ret = RetTrue
  /\ Len(models) = 2
  /\ visible = AllItems
  /\ Cardinality(AllItems) >= 3

\* C3: a successful isolateByCategory(C) leaves exactly the items of C visible,
\* a successful hideByCategory(C) hides exactly the items of C and changes no
\* other item, and a successful showCategories(C) makes the items of C visible,
\* for every list of loaded models.
C3_CategoryPartition ==
  [][lastCall'.ret = RetTrue =>
       /\ lastCall'.op = "isolateByCategory" =>
            visible' = ItemsOfCategories(lastCall'.arg)
       /\ lastCall'.op = "hideByCategory" =>
            visible' = visible \ ItemsOfCategories(lastCall'.arg)
       /\ lastCall'.op = "showCategories" =>
            ItemsOfCategories(lastCall'.arg) \subseteq visible']_vars

\* C4: whenever a manager method finds its dependency missing, or the library
\* call it wraps throws, the caller gets false or null: never an exception,
\* never undefined.
C4_FailureReturnsSentinel ==
  (lastCall.depMissing \/ lastCall.threw) => lastCall.ret \in {RetFalse, RetNull}

\* C6: in the application as initApp leaves it, a double-click on the viewer
\* container while area measurement is enabled calls the area measurer's
\* create().
C6_DblclickCreatesArea ==
  (lastCall.op = "dblclick" /\ pc = "done" /\ areaEnabled) =>
    "AreaMeasurement.create" \in lastCall.val

\* C8: once initApp waits for the race between fragments.core.update and the
\* 2000 ms timer, it goes on to the manager initialisation, whether the update
\* resolves, rejects or never settles.
C8_StartupPassesRace == (pc = "awaitUpdate") ~> (pc = "area")

\* initApp has gone on after the timer fired, the update still pending
C8_Witness ==
  /\ pc = "area"
  /\ updateState = "pending"
  /\ timerState = "fired"

\* the begin and end of every init, in the order initApp calls them
FullLog ==
  [i \in 1..(2 * Len(ManagerOrder)) |->
     <<IF i % 2 = 1 THEN "begin" ELSE "end", ManagerOrder[(i + 1) \div 2]>>]

\* C9 as stated: the controls of a manager have handlers only if its init
\* returned true.
C9_BoundOnlyIfReady == \A m \in bound : ready[m] = "true"

\* C9: the inits begin and end one after the other in the fixed order, an
\* init that returns false does not keep the later ones from running, and
\* the controls of a manager are bound only if its init returned true, except
\* those of length measurement and the highlighter, which are always bound
\* and are disabled when the init returned false.
C9_SequentialInit ==
  /\ initLog = SubSeq(FullLog, 1, Len(initLog))
  /\ Cardinality({m \in Managers : ready[m] = "running"}) <= 1
  /\ pc \in {"ui", "theme", "controls", "done"} =>
       \A m \in Managers : ready[m] \in {"true", "false"}
  /\ \A m \in bound \ AlwaysRendered : ready[m] = "true"
  /\ pc = "done" =>
       /\ bound = {m \in Managers : ready[m] = "true"} \cup AlwaysRendered
       /\ disabledControls = {m \in AlwaysRendered : ready[m] = "false"}

\* initApp is through: every init ran, the inits of length measurement and
\* the IFC loader returned false, and the length controls are bound and
\* disabled while the IFC loader has none
C9_Witness ==
  /\ pc = "done"
  /\ Len(initLog) = 2 * Len(ManagerOrder)
  /\ ready["length"] = "false"
  /\ ready["ifc"] = "false"
  /\ ready["highlighter"] = "true"
  /\ "length" \in bound
  /\ "length" \in disabledControls
  /\ "ifc" \notin bound

\* C10 as stated: localStorage 'theme' is 'dark' exactly when the body has the
\* dark-mode class, a page load applies the theme the page had when it was
\* left, and two toggles in a row bring back the class and the stored value.
C10_DoubleToggleRestoresStored ==
  [][/\ themeReady' => ((storedTheme' = "dark") <=> darkMode')
     /\ (lastCall' # lastCall /\ lastCall'.op = "setupThemeToggle" /\ themeAtUnload # Null) =>
          (IF darkMode' THEN "dark" ELSE "light") = themeAtUnload
     /\ (lastCall' # lastCall /\ lastCall.op = "toggleTheme" /\ lastCall'.op = "toggleTheme") =>
          /\ darkMode' = lastCall.val.darkMode
          /\ storedTheme' = lastCall.val.storedTheme]_vars

\* C10: localStorage 'theme' is 'dark' exactly when the body has the dark-mode
\* class, a page load applies the theme the page had when it was left, and
\* two toggles in a row bring back the class, and the stored value too when
\* one was stored before the first of them.
C10_ThemePersisted ==
  [][/\ themeReady' => ((storedTheme' = "dark") <=> darkMode')
     /\ (lastCall' # lastCall /\ lastCall'.op = "setupThemeToggle" /\ themeAtUnload # Null) =>
          (IF darkMode' THEN "dark" ELSE "light") = themeAtUnload
     /\ (lastCall' # lastCall /\ lastCall.op = "toggleTheme" /\ lastCall'.op = "toggleTheme") =>
          /\ darkMode' = lastCall.val.darkMode
          /\ lastCall.val.storedTheme # Null => storedTheme' = lastCall.val.storedTheme]_vars

\* on a page loaded after the dark theme was chosen, a second toggle in a
\* row has brought dark back, the stored value with it
C10_Witness ==
  /\ lastCall.op = "toggleTheme"
  /\ themeAtUnload = "dark"
  /\ lastCall.val.storedTheme = "light"
  /\ storedTheme = "dark"
  /\ darkMode

\* C11: two toggles in a row bring the flag back: toggleClippings() twice
\* leaves every clipping plane's enabled flag as it was, setEnabled(!isEnabled())
\* twice leaves isEnabled() as it was, and setSectionsEnabled(!sectionsEnabled)
\* twice leaves sectionsEnabled as it was.
C11_DoubleToggleRestores ==
  [][/\ (lastCall.op = "toggleClippings" /\ lastCall'.op = "toggleClippings"
           /\ lastCall.ret = RetTrue) =>
          (lastCall'.ret = RetTrue /\ planes' = lastCall.val)
     /\ (lastCall.op = "ClipperManager.setEnabled"
           /\ lastCall'.op = "ClipperManager.setEnabled") =>
          isEnabled' = ~lastCall.arg
     /\ (lastCall.op = "setSectionsEnabled" /\ lastCall'.op = "setSectionsEnabled") =>
          sectionsEnabled' = ~lastCall.arg]_vars

\* two planes with different flags have just been toggled again, with the
\* clipper and Sections mode switched on
C11_Witness ==
  /\ lastCall.op = "toggleClippings"
  /\ lastCall.ret = RetTrue
  /\ MapSize(planes) = 2
  /\ planes[1] # planes[2]
  /\ lastCall.val = [id \in DOMAIN planes |-> ~planes[id]]
  /\ isEnabled
  /\ sectionsEnabled

\* C12: a double-click on the viewer while Sections mode is off does not call
\* createCustomSection and leaves the custom sections as they are.
C12_DblclickNeedsSectionsMode ==
  [][(lastCall'.op = "views.dblclick" /\ ~sectionsEnabled) =>
       /\ "createCustomSection" \notin lastCall'.val
       /\ customSections' = customSections
       /\ sectionJobs' = sectionJobs]_vars

\* a section was made by double-click, Sections mode was switched off, and a
\* later double-click did nothing
C12_Witness ==
  /\ lastCall.op = "views.dblclick"
  /\ ~sectionsEnabled
  /\ lastCall.val = {}
  /\ MapSize(customSections) = 1
  /\ sectionJobs = 0

C13_AutoFitAfterLoad ==
  [][/\ (loadJob.owner = "loadBtn" /\ loadJob'.owner = "none"
           /\ lastCall'.ret = RetTrue /\ ready["camera"] = "true") =>
          /\ "fitToAll" \in lastCall'.val
          /\ ~isLoading'
          /\ ~loadBtnDisabled'
     /\ "fitToAll" \in lastCall'.val =>
          /\ loadJob.owner = "loadBtn"
          /\ loadJob' = NoJob
          /\ lastCall'.ret = RetTrue]_vars

\* a load started with the button has converted its file and returned true,
\* the callback was called and the camera stands where the fit put it
C13_Witness ==
  /\ lastCall.op = "loadFromFile"
  /\ lastCall.arg = "loadBtn"
  /\ lastCall.ret = RetTrue
  /\ ~lastCall.threw
  /\ lastCall.val = {"onLoadComplete", "fitToAll"}
  /\ camPos = FittedPosition
  /\ ~loadBtnDisabled
  /\ loadProgress = 100

\* C16: while a load is running no second one starts: a call of
\* loadFromFile or loadFromUrl made while isLoading is true returns false
\* and leaves isLoading, loadProgress and the running load as they are; and
\* isLoading is true exactly while a load is between its guard and its
\* return, whatever that load returns.
C16_OneLoadAtATime ==
  [][/\ isLoading' <=> (loadJob' # NoJob)
     /\ isLoading =>
          /\ loadJob'.stage = "read" => loadJob' = loadJob
          /\ (lastCall'.op \in {"loadFromFile", "loadFromUrl"} /\ loadJob' # NoJob) =>
               /\ lastCall'.ret = RetFalse
               /\ UNCHANGED <<isLoading, loadProgress, loadJob>>]_vars

\* a load from a URL is converting and has reported progress, and a click on
\* the Load button has just been refused
C16_Witness ==
  /\ isLoading
  /\ loadJob.via = "loadFromUrl"
  /\ loadJob.stage = "convert"
  /\ loadProgress = 50
  /\ lastCall.op = "loadFromFile"
  /\ lastCall.arg = "loadBtn"
  /\ lastCall.ret = RetFalse
  /\ ~loadBtnDisabled

\* C17: loadFromFile and loadFromUrl return true only for a load whose
\* conversion succeeded; a load whose conversion failed returns false and
\* has not called onLoadComplete.
C17_TrueOnlyIfConverted ==
  (lastCall.op \in {"loadFromFile", "loadFromUrl"} /\ lastCall.threw) =>
    /\ lastCall.ret = RetFalse
    /\ "onLoadComplete" \notin lastCall.val

\* C14: whatever setProjectionMode and setNavigationMode calls are made,
\* camera calls that throw included, the manager never holds projectionMode
\* Orthographic together with navigationMode FirstPerson; and a call with a
\* mode name outside the allowed list returns false and leaves both fields
\* as they are.
C14_ModesNeverOrthoFirstPerson ==
  [][/\ ~(projectionMode' = "Orthographic" /\ navigationMode' = "FirstPerson")
     /\ (lastCall'.op = "setProjectionMode" /\ lastCall'.arg \notin ProjectionModes) =>
          (lastCall'.ret = RetFalse /\ UNCHANGED ccVars)
     /\ (lastCall'.op = "setNavigationMode" /\ lastCall'.arg \notin NavigationModes) =>
          (lastCall'.ret = RetFalse /\ UNCHANGED ccVars)]_vars

\* C15: with the two setters interleaved with loadCustomSection,
\* closeActiveView and deleteCustomSection, the camera is never in
\* Orthographic projection and FirstPerson navigation at once.
C15_CameraNeverOrthoFirstPerson ==
  ~(camProjection = "Orthographic" /\ camMode = "FirstPerson")

\* C18: after a resetIsolation that returned true, every fragment in the
\* list of the fragments manager is visible and isolationEnabled is false,
\* whatever loads, isolateItems and resetIsolation calls came before.
C18_ResetShowsAll ==
  (lastCall.op = "resetIsolation" /\ lastCall.ret = RetTrue) =>
    /\ \A id \in DOMAIN meshVisible : meshVisible[id]
    /\ ~isolationEnabled

====
